---- MODULE Spec2Model ----
(***************************************************************************)
(* db2lake - the Pipeline orchestrator (packages/core/src/pipeline.ts).    *)
(*                                                                         *)
(* One Pipeline instance, its Source and Destination drivers, its optional *)
(* transformer and logger.  A step of the model is one resolution of an    *)
(* awaited driver call together with the synchronous code that follows it  *)
(* up to the next awaited driver call (or up to the end of the top-level   *)
(* call).  The drivers are the environment: every driver call may resolve  *)
(* or reject, and fetch() may yield any batch.                             *)
(*                                                                         *)
(* The top-level calls (run(), and connect(), process(), cleanup() as a    *)
(* subclass may call them) are made one after the other on the instance.   *)
(* The logger returns normally, so the outer catch of cleanup() (lines     *)
(* 211-214), which only a throwing logger could reach, is never entered.   *)
(* "source.fetch" in the trace is one next() on the sequence fetch()       *)
(* returned; trace and logs cover the top-level call in flight (or the     *)
(* last one, between calls).                                               *)
(***************************************************************************)
EXTENDS Integers, Sequences, FiniteSets, TLC

\* ------------------------------------------------------------------ bounds
MaxId == 1          \* record ids are 1..MaxId
MaxBatchLen == 1    \* a yielded batch holds 0..MaxBatchLen records
MaxBatches == 2     \* batches the Source yields to the instance, all calls together
MaxCalls == 2       \* top-level calls made on the instance
MaxKey == 3         \* the cursor values of rows are 1..MaxKey
MaxPageLen == 2     \* a result of the backend holds 0..MaxPageLen rows
MaxQueries == 3     \* queries an unrestricted backend is asked by one fetch()
MaxRetries == 2     \* a configured maxRetries is 0..MaxRetries
MaxRows == 2        \* an insert() call passes 0..MaxRows rows; batchSize is 1..MaxRows
MaxInserts == 2     \* insert() calls made on one driver instance
MaxParallel == 2    \* a configured maxParallelStatements is 1..MaxParallel
MaxSetups == 2      \* connect() and close() calls made on one driver instance
MaxFetches == 2     \* fetch() sequences that execute a query on one driver instance

\* ------------------------------------------------------------- data values
Records == [id : 1..MaxId]
Undefined == [undefined |-> TRUE]
Null == [null |-> TRUE]
NoError == [none |-> TRUE]
NoData == [nodata |-> TRUE]
NoResult == [op |-> "none", status |-> "none", error |-> NoError]
\* new Date().toISOString(): the wall-clock string, kept symbolic (no code reads it)
Now == "now"

SeqsUpTo(S, n) == UNION {[1..k -> S] : k \in 0..n}
\* the batches a Source yields: rows in ascending id order, as a paginated
\* query returns them
Batches ==
    {b \in SeqsUpTo(Records, MaxBatchLen) : \A i \in 1..(Len(b) - 1) : b[i].id < b[i + 1].id}

\* the rejections the drivers and the transformer can produce
SourceConnectError == [name |-> "SourceConnectError"]
DestinationConnectError == [name |-> "DestinationConnectError"]
FetchError == [name |-> "FetchError"]
TransformError == [name |-> "TransformError"]
WriteError == [name |-> "WriteError"]
SourceCloseError == [name |-> "SourceCloseError"]
DestinationCloseError == [name |-> "DestinationCloseError"]

\* the transformers a Pipeline is constructed with ("none": no transformer)
Transformers == {"none", "times10", "dropOdd", "rejecting"}

VARIABLES
    connected,      \* IPipeline.connected
    batchCount,     \* IPipeline.batchCount
    totalRows,      \* IPipeline.totalRows
    currentCursor,  \* IPipeline.currentCursor (Null or a PipelineCursor)
    transformer,    \* constructor argument: which transformer, or "none"
    logger,         \* constructor argument: TRUE iff a logger was given
    top,            \* the top-level call in flight, "none" between calls
    pc,             \* the driver call being awaited, "idle" between calls
    cleanupCaller,  \* who called the cleanup() in flight
    pendingError,   \* the error thrown once the cleanup() in flight is over
    batch,          \* the loop variable of process(): the batch in hand
    trace,          \* driver/transformer calls and results of this call
    logs,           \* what the logger received during this call
    result,         \* how the last completed top-level call ended
    start,          \* the fields as they were when this call started
    calls,          \* top-level calls started so far
    yields          \* batches the Source has yielded so far

\* the Paginator: fetch() of a MySQL, Postgres or Oracle source driver, its
\* configuration, its backend and what its consumer has seen
VARIABLES
    querySpec,          \* this.config: params, and cursorField, cursorParamsIndex if given
    connection,         \* TRUE iff this.connection holds a connection
    params,             \* the local array params of fetch()
    cursorValue,        \* the local cursorValue of fetch()
    fetchPc,            \* where the generator stands
    fetchError,         \* what the generator threw to its consumer
    queries,            \* the params of every query executed, in order
    replies,            \* the number of results the backend has returned
    failures,           \* the number of queries the backend has rejected
    yielded,            \* the batch yielded last
    yieldCount,         \* the number of batches yielded
    began,              \* the params of the first query of every fetch() so far
    scenario,           \* leading results equal to those of the drivers' test
    backend,            \* "any": returns anything; "filtered": rows above the bound
    table               \* the cursor values of the rows a filtered backend holds

\* a destination driver instance (Redshift, Snowflake, Databricks or
\* BigQuery), the call in flight on it, and its backend
VARIABLES
    adapter,            \* which driver the instance is
    writerConfig,       \* this.config: batchSize, and the optional fields if given
    client,             \* this.client (Redshift: this.pool) holds an object
    conn,               \* this.connection (Redshift: this.client, BigQuery: this.table) holds an object
    writeStream,        \* BigQuery: this.writeStream holds a stream
    pendingRows,        \* Databricks, BigQuery: the number of rows in this.pendingRows
    currentTransaction, \* Databricks: this.currentTransaction
    method,             \* the method in flight, or that ended last: connect, insert, close
    passed,             \* the number of rows passed to the insert() in flight
    retryCount,         \* the local retryCount of insert() (Databricks: attempt of flushBatch())
    unit,               \* the number of rows of the flush unit in hand
    offset,             \* the local i of the slicing loop: rows of the unit sliced off before this sub-batch
    group,              \* Snowflake: the local j, statements of the sub-batch before the awaited ones
    statements,         \* the write statements of the sub-batch in hand: pending, ok or failed
    insertPc,           \* the call awaited, "idle" between the driver's methods
    caught,             \* the error in hand in a catch or finally block
    insertResult,       \* how the last completed method ended
    attempts,           \* times the current insert() or close() has entered the try block of a flush
    rollbackFailed,     \* TRUE iff a ROLLBACK of the current method was rejected
    inserts,            \* insert() calls started so far
    setups,             \* connect() and close() calls started so far
    closes,             \* close() calls started so far
    online,             \* the object in connection (BigQuery: client) is connected to the backend
    txOpen,             \* backend: a transaction is open on the connection
    staged,             \* backend: rows written in the open transaction
    stored,             \* backend: rows the table durably holds
    held,               \* backend: rows the table durably held when the current method was called
    orphans,            \* write statements in flight that no code awaits any more
    accepted,           \* rows passed to the insert() calls that returned
    rollbacks,          \* ROLLBACK statements the current method has issued
    commits,            \* COMMIT statements the current method has issued
    otherFailed,        \* TRUE iff a statement other than a row write was rejected in the current method
    established,        \* backend connections established since construction
    creates,            \* CREATE TABLE IF NOT EXISTS statements issued since construction
    piped               \* TRUE iff the calls made so far are those of one Pipeline.run(): connect(), insert()s that returned, close()

\* fetch() of a Firestore source driver, its backend and what its consumer
\* has seen
VARIABLES
    limit,                  \* this.config.limit
    db,                     \* TRUE iff this.db holds a Firestore instance
    lastDocumentSnapshot,   \* this.lastDocumentSnapshot
    startAfter,             \* the position the local query starts after (Null: as configured)
    firestorePc,            \* where the generator stands
    gets,                   \* the start position of every query executed, in order
    snapshots,              \* the docs of every snapshot the backend has returned, in order
    emitted                 \* the batches yielded, in order

pipeline == <<connected, batchCount, totalRows, currentCursor, transformer, logger,
              top, pc, cleanupCaller, pendingError, batch, trace, logs,
              result, start, calls, yields>>

paginator == <<querySpec, connection, params, cursorValue, fetchPc, fetchError,
               queries, replies, failures, yielded, yieldCount, began, scenario,
               backend, table>>

writer == <<adapter, writerConfig, client, conn, writeStream, pendingRows,
            currentTransaction, method, passed, retryCount, unit, offset, group, statements,
            insertPc, caught, insertResult, attempts, rollbackFailed, inserts, setups,
            closes, online, txOpen, staged, stored, held, orphans, accepted,
            rollbacks, commits, otherFailed, established, creates, piped>>

firestore == <<limit, db, lastDocumentSnapshot, startAfter, firestorePc, gets,
               snapshots, emitted>>

\* the driver instances, which no step of the Pipeline reads or writes: it
\* sees its Source and Destination through connect, fetch, insert and close
drivers == <<paginator, writer, firestore>>

vars == <<pipeline, drivers>>

\* what a step of the Paginator leaves alone
exceptPaginator == <<pipeline, writer, firestore>>
\* what a step of the Batched Writer leaves alone
exceptWriter == <<pipeline, paginator, firestore>>

fields == <<connected, batchCount, totalRows, currentCursor>>
config == <<transformer, logger>>

\* ----------------------------------------------------------------- helpers
\* batch[batch.length - 1]: undefined for an empty array
LastItem(b) == IF Len(b) = 0 THEN Undefined ELSE b[Len(b)]

\* the transformer functions: rows -> rows (pure)
Times10(b) == [i \in 1..Len(b) |-> [id |-> b[i].id * 10]]
IsEven(r) == r.id % 2 = 0
DropOdd(b) == SelectSeq(b, IsEven)
Transformer(t, b) ==
    CASE t = "times10" -> Times10(b)
      [] t = "dropOdd" -> DropOdd(b)
      [] t = "rejecting" -> Times10(b)
      [] OTHER -> b
\* "rejecting" throws on a batch that holds the record with id 1
TransformerThrows(t, b) == t = "rejecting" /\ \E i \in 1..Len(b) : b[i].id = 1

\* this.transformer ? this.transformer(batch) : batch
TransformedBatch(b) == IF transformer # "none" THEN Transformer(transformer, b) ELSE b

\* this.batchCount++ counts rows instead of batches
BatchCountPlusRows(n, b) == n + Len(b)

\* this.batchCount++
NextBatchCount(n, b) == n + 1

\* the rows of the transformed batch are counted
CountedRowsTransformed(b) == Len(TransformedBatch(b))

\* this.totalRows += batch.length
CountedRows(b) == Len(b)

\* the cursor remembers the last item of the transformed batch
NewCursorTransformed(pos, b) ==
    [position |-> pos, lastItem |-> LastItem(TransformedBatch(b)), timestamp |-> Now]

\* this.currentCursor = { position, lastItem, timestamp }
NewCursor(pos, b) == [position |-> pos, lastItem |-> LastItem(b), timestamp |-> Now]

\* this.log(level, message, data): only when a logger was given
Log(lg, level, message, data) ==
    IF logger THEN Append(lg, [level |-> level, message |-> message, data |-> data])
    ELSE lg

\* one entry of the observed interaction with the drivers and the transformer
Ev(name, arg) == [ev |-> name, arg |-> arg]

\* getMetrics(): the snapshot returned to the caller
getMetrics == [batchCount |-> batchCount, totalRows |-> totalRows, cursor |-> currentCursor]

\* what the trace of a call says
CountBefore(tr, i, name) == Cardinality({j \in 1..(i - 1) : tr[j].ev = name})
Count(tr, name) == CountBefore(tr, Len(tr) + 1, name)
IsYield(e) == e.ev = "source.yield"
IsInsert(e) == e.ev = "destination.insert"
ArgsOf(es) == [i \in 1..Len(es) |-> es[i].arg]
Yielded(tr) == ArgsOf(SelectSeq(tr, IsYield))
Received(tr) == ArgsOf(SelectSeq(tr, IsInsert))
RECURSIVE SumLen(_)
SumLen(bs) == IF bs = <<>> THEN 0 ELSE Len(bs[1]) + SumLen(Tail(bs))

\* -------------------------------------------------- control-flow fragments
\* The top-level call t is over: it returned, or threw err.
Finish(t, status, err, lg, tr) ==
    /\ top' = "none"
    /\ pc' = "idle"
    /\ cleanupCaller' = "none"
    /\ pendingError' = NoError
    /\ result' = [op |-> t, status |-> status, error |-> err]
    /\ logs' = lg
    /\ trace' = tr

\* The code issues the driver call `call` and awaits it.
Await(t, call, arg, caller, err, lg, tr) ==
    /\ top' = t
    /\ pc' = call
    /\ cleanupCaller' = caller
    /\ pendingError' = err
    /\ result' = NoResult
    /\ logs' = lg
    /\ trace' = Append(tr, Ev(call, arg))

\* cleanup() up to its first await; `caller` is where cleanup() returns to
\* and err what that caller throws afterwards.
StartCleanup(t, caller, err, lg, tr) ==
    Await(t, "source.close", <<>>, caller, err,
          Log(lg, "info", <<"Cleaning up resources...">>, NoData), tr)

\* process() up to its first await: the first next() of source.fetch()
StartProcess(t, lg, tr) ==
    Await(t, "source.fetch", <<>>, "none", NoError,
          Log(lg, "info", <<"Starting data processing">>, NoData), tr)

\* process() is over (err = NoError: it returned): run() goes on to its
\* finally block, a direct caller gets the outcome.
ExitProcess(t, err, lg, tr) ==
    IF t = "run" THEN StartCleanup(t, "run", err, lg, tr)
    ELSE Finish(t, IF err = NoError THEN "returned" ELSE "threw", err, lg, tr)

\* the outer catch wraps the error together with the cursor before throwing
ProcessingFailedWrapped(t, err, lg, tr) ==
    ExitProcess(t, [name |-> "PipelineError", cause |-> err, cursor |-> currentCursor],
                Log(lg, "error", <<"Data processing failed">>,
                    [error |-> err, lastCursor |-> currentCursor]),
                tr)

\* the outer catch of process()
ProcessingFailed(t, err, lg, tr) ==
    ExitProcess(t, err,
                Log(lg, "error", <<"Data processing failed">>,
                    [error |-> err, lastCursor |-> currentCursor]),
                tr)

\* the catch inside the loop body logs and goes on with the next batch
BatchFailedSwallow(t, err, b, lg, tr) ==
    Await(t, "source.fetch", <<>>, "none", NoError,
          Log(lg, "error", <<"Failed to process batch ", batchCount>>,
              [error |-> err, batchSize |-> Len(b), cursor |-> currentCursor]),
          tr)

\* the catch inside the loop body, for the batch b in hand; leaving the
\* for-await loop by a throw closes the generator (its return() is called)
BatchFailed(t, err, b, lg, tr) ==
    ProcessingFailed(t, err,
                     Log(lg, "error", <<"Failed to process batch ", batchCount>>,
                         [error |-> err, batchSize |-> Len(b), cursor |-> currentCursor]),
                     Append(tr, Ev("source.return", <<>>)))

\* the catch of connect() throws without cleaning up
ConnectFailedNoCleanup(t, err, lg, tr) ==
    Finish(t, "threw", err,
           Log(lg, "error", <<"Failed to establish connections">>, err), tr)

\* the catch of connect()
ConnectFailed(t, err, lg, tr) ==
    StartCleanup(t, "connect", err,
                 Log(lg, "error", <<"Failed to establish connections">>, err), tr)

\* connect() returned normally
ConnectReturned(t, lg, tr) ==
    IF t = "run" THEN StartProcess(t, lg, tr)
    ELSE Finish(t, "returned", NoError, lg, tr)

\* connect() is called inside the try of run(): its failure reaches the
\* finally block, which cleans up once more
CleanupReturnedConnectInTry(t, lg, tr) ==
    CASE cleanupCaller = "connect" /\ t = "run" ->
            StartCleanup(t, "run", pendingError, lg, tr)
      [] cleanupCaller = "connect" -> Finish(t, "threw", pendingError, lg, tr)
      [] cleanupCaller = "run" ->
            Finish(t, IF pendingError = NoError THEN "returned" ELSE "threw",
                   pendingError, lg, tr)
      [] OTHER -> Finish(t, "returned", NoError, lg, tr)

\* cleanup() returned: back in its caller
CleanupReturned(t, lg, tr) ==
    CASE cleanupCaller = "connect" -> Finish(t, "threw", pendingError, lg, tr)
      [] cleanupCaller = "run" ->
            Finish(t, IF pendingError = NoError THEN "returned" ELSE "threw",
                   pendingError, lg, tr)
      [] OTHER -> Finish(t, "returned", NoError, lg, tr)

Snapshot == [connected |-> connected, batchCount |-> batchCount,
             totalRows |-> totalRows, currentCursor |-> currentCursor]

\* every top-level call starts from fresh metrics
BeginCallResets ==
    /\ top = "none"
    /\ calls < MaxCalls
    /\ calls' = calls + 1
    /\ start' = Snapshot
    /\ batch' = <<>>
    /\ batchCount' = 0
    /\ totalRows' = 0
    /\ currentCursor' = Null
    /\ UNCHANGED <<connected, config, yields, drivers>>

\* a top-level call is made on the instance: no field is touched by the call
\* itself
BeginCall ==
    /\ top = "none"
    /\ calls < MaxCalls
    /\ calls' = calls + 1
    /\ start' = Snapshot
    /\ batch' = <<>>
    /\ UNCHANGED <<fields, config, yields, drivers>>

\* ----------------------------------------------------- Paginator: values
\* params: [0] of the drivers' tests: the initial cursor parameter
InitialCursor == 0
\* a query parameter that is no cursor bound (a value no row carries)
OtherParam == MaxKey + 1

Keys == 1..MaxKey
\* a row that carries the cursor field `id`, or one that lacks it
Rows == [id : Keys] \cup {[name |-> "n"]}
Pages == SeqsUpTo(Rows, MaxPageLen)
\* what execute() resolves with: rows, or a result without rows
NoRows == [norows |-> TRUE]
AnyResults == {[rows |-> p] : p \in Pages} \cup {NoRows}

ConnectError == [name |-> "ConnectError"]
QueryError == [name |-> "QueryError"]

ParamArrays == {<<InitialCursor>>, <<InitialCursor, OtherParam>>, <<OtherParam, InitialCursor>>}
\* the Query Specs: cursorField and cursorParamsIndex are each given or not
QuerySpecs ==
    UNION {{[params |-> ps], [params |-> ps, cursorField |-> "id"]}
           \cup {[params |-> ps, cursorParamsIndex |-> i] : i \in 0..(Len(ps) - 1)}
           \cup {[params |-> ps, cursorField |-> "id", cursorParamsIndex |-> i] :
                    i \in 0..(Len(ps) - 1)}
           : ps \in ParamArrays}

\* the Query Spec and the backend results of the drivers' tests
ScenarioSpec == [params |-> <<InitialCursor>>, cursorField |-> "id", cursorParamsIndex |-> 0]
ScenarioResults ==
    <<[rows |-> <<[id |-> 1], [id |-> 2]>>], [rows |-> <<[id |-> 3]>>], [rows |-> <<>>]>>

\* a driver instance as constructed, on which fetch() is not called
PaginatorStart ==
    /\ connection \in BOOLEAN
    /\ params = <<>>
    /\ cursorValue = Undefined
    /\ fetchPc = "start"
    /\ fetchError = NoError
    /\ queries = <<>>
    /\ replies = 0
    /\ failures = 0
    /\ yielded = <<>>
    /\ yieldCount = 0
    /\ began = <<>>
    /\ scenario = 0

PaginatorUnused ==
    /\ PaginatorStart
    /\ querySpec = [params |-> <<>>]
    /\ connection = FALSE
    /\ backend = "any"
    /\ table = {}

\* ------------------------------------------------------ Firestore: values
\* the documents of the collection: an id, and data()
DocumentSnapshots == {[id |-> k, data |-> [value |-> k]] : k \in Keys}

\* docs.map(doc => ({ id: doc.id, ...doc.data() }))
Plain(docs) == [i \in 1..Len(docs) |-> docs[i].data @@ [id |-> docs[i].id]]

\* a driver instance as constructed, on which fetch() is not called
FirestoreUnused ==
    /\ limit = 1
    /\ db = FALSE
    /\ lastDocumentSnapshot = Null
    /\ startAfter = Null
    /\ firestorePc = "start"
    /\ gets = <<>>
    /\ snapshots = <<>>
    /\ emitted = <<>>

\* -------------------------------------------------- Batched Writer: values
\* `maxRetries ?? 3`: the retries of a configuration that names none
DefaultMaxRetries == 3
Adapters == {"redshift", "snowflake", "databricks", "bigquery"}
\* insert() appends its rows to this.pendingRows; in Redshift and Snowflake
\* it writes them before it returns
Buffered == {"databricks", "bigquery"}

\* a field of the configuration that may be left out
Optional(name, S) == {<<>>} \cup {name :> v : v \in S}
\* every way of adding one element of each set of O (a sequence of sets of
\* optional fields) to the configuration c
RECURSIVE WithEach(_, _)
WithEach(c, O) ==
    IF O = <<>> THEN {c}
    ELSE UNION {WithEach(c @@ o, Tail(O)) : o \in Head(O)}

\* the configurations, with the fields that the driver's insert() and close()
\* read
WriterConfigs(a) ==
    LET retries == Optional("maxRetries", 0..MaxRetries)
        enabled == Optional("enabled", BOOLEAN)
        options ==
            CASE a = "redshift" -> <<retries, enabled, Optional("truncate", {TRUE})>>
              [] a = "snowflake" ->
                    <<retries, enabled, Optional("maxParallelStatements", 1..MaxParallel),
                      Optional("queryTimeout", {TRUE})>>
              [] a = "databricks" -> <<retries, enabled>>
              [] OTHER -> <<Optional("writeOptions", {TRUE})>>
    IN  UNION {WithEach([batchSize |-> b], options) : b \in 1..MaxRows}

\* the configurations of the drivers whose connect() and close() are studied:
\* table creation asked for or not, at most one retry
SetupConfigs(a) ==
    LET retries == IF a = "bigquery" THEN {<<>>} ELSE {"maxRetries" :> 1}
        stream == IF a = "bigquery" THEN Optional("writeOptions", {TRUE}) ELSE {<<>>}
    IN  UNION {WithEach([batchSize |-> b],
                        <<retries, stream, Optional("createTableOptions", {TRUE})>>)
               : b \in 1..MaxRows}

StatementError(stmt) == [name |-> "StatementError", statement |-> stmt]
NoInsertResult == [status |-> "none", error |-> NoError]

\* the fields of a driver no method has been called on, and a backend table
\* that holds nothing
WriterStart ==
    /\ pendingRows = 0
    /\ currentTransaction = FALSE
    /\ method = "none"
    /\ passed = 0
    /\ retryCount = 0
    /\ unit = 0
    /\ offset = 0
    /\ group = 0
    /\ statements = <<>>
    /\ insertPc = "idle"
    /\ caught = NoError
    /\ insertResult = NoInsertResult
    /\ attempts = 0
    /\ rollbackFailed = FALSE
    /\ inserts = 0
    /\ setups = 0
    /\ closes = 0
    /\ txOpen = FALSE
    /\ staged = 0
    /\ stored = 0
    /\ held = 0
    /\ orphans = 0
    /\ accepted = 0
    /\ rollbacks = 0
    /\ commits = 0
    /\ otherFailed = FALSE
    /\ piped = TRUE

\* as the constructor leaves the driver
Constructed ==
    /\ WriterStart
    /\ client = FALSE
    /\ conn = FALSE
    /\ writeStream = FALSE
    /\ online = FALSE
    /\ established = 0
    /\ creates = 0

\* as a connect() that returned leaves a constructed driver
Connected ==
    /\ WriterStart
    /\ client = (adapter # "snowflake")
    /\ conn = TRUE
    /\ writeStream = (adapter = "bigquery" /\ "writeOptions" \in DOMAIN writerConfig)
    /\ online = TRUE
    /\ established = 1
    /\ creates = IF "createTableOptions" \in DOMAIN writerConfig THEN 1 ELSE 0

WriterUnused ==
    /\ Constructed
    /\ adapter = "redshift"
    /\ writerConfig = [batchSize |-> 1]

\* ------------------------------------------------------------------- state
PipelineInit ==
    /\ connected = FALSE
    /\ batchCount = 0
    /\ totalRows = 0
    /\ currentCursor = Null
    /\ transformer \in Transformers
    /\ logger \in BOOLEAN
    /\ top = "none"
    /\ pc = "idle"
    /\ cleanupCaller = "none"
    /\ pendingError = NoError
    /\ batch = <<>>
    /\ trace = <<>>
    /\ logs = <<>>
    /\ result = NoResult
    /\ start = [connected |-> FALSE, batchCount |-> 0, totalRows |-> 0, currentCursor |-> Null]
    /\ calls = 0
    /\ yields = 0

\* the Pipeline under study takes its Source and Destination as the
\* environment; the driver instances modelled below stay as constructed
Init == PipelineInit /\ PaginatorUnused /\ WriterUnused /\ FirestoreUnused

\* ----------------------------------------------------------------- actions
\* connect() without its `if (this.connected) return`
EnterConnectNoGuard(t) ==
    Await(t, "source.connect", <<>>, "none", NoError,
          Log(<<>>, "info", <<"Establishing connections...">>, NoData), <<>>)

\* connect() up to its first await
EnterConnect(t) ==
    IF connected THEN ConnectReturned(t, <<>>, <<>>)
    ELSE Await(t, "source.connect", <<>>, "none", NoError,
               Log(<<>>, "info", <<"Establishing connections...">>, NoData), <<>>)

\* pipeline.run()
CallRun == BeginCall /\ EnterConnect("run")

\* a subclass calls connect()
CallConnect == BeginCall /\ EnterConnect("connect")

\* a subclass calls process()
CallProcess == BeginCall /\ StartProcess("process", <<>>, <<>>)

\* a subclass calls cleanup()
CallCleanup == BeginCall /\ StartCleanup("cleanup", "direct", NoError, <<>>, <<>>)

\* await this.source.connect() resolves
SourceConnectResolves ==
    /\ pc = "source.connect"
    /\ Await(top, "destination.connect", <<>>, "none", NoError, logs,
             Append(trace, Ev("source.connect.ok", <<>>)))
    /\ UNCHANGED <<fields, config, batch, start, calls, yields, drivers>>

\* a rejected source.connect() is put aside and the Destination is
\* connected all the same
SourceConnectRejectsGoesOn ==
    /\ pc = "source.connect"
    /\ Await(top, "destination.connect", <<>>, "none", NoError, logs,
             Append(trace, Ev("source.connect.fail", <<>>)))
    /\ UNCHANGED <<fields, config, batch, start, calls, yields, drivers>>

\* await this.source.connect() rejects
SourceConnectRejects ==
    /\ pc = "source.connect"
    /\ ConnectFailed(top, SourceConnectError, logs,
                     Append(trace, Ev("source.connect.fail", <<>>)))
    /\ UNCHANGED <<fields, config, batch, start, calls, yields, drivers>>

\* await this.destination.connect() resolves
DestinationConnectResolves ==
    /\ pc = "destination.connect"
    /\ connected' = TRUE
    /\ ConnectReturned(top,
                       Log(logs, "info", <<"Connections established successfully">>, NoData),
                       Append(trace, Ev("destination.connect.ok", <<>>)))
    /\ UNCHANGED <<batchCount, totalRows, currentCursor, config, batch, start, calls, yields, drivers>>

\* await this.destination.connect() rejects
DestinationConnectRejects ==
    /\ pc = "destination.connect"
    /\ ConnectFailed(top, DestinationConnectError, logs,
                     Append(trace, Ev("destination.connect.fail", <<>>)))
    /\ UNCHANGED <<fields, config, batch, start, calls, yields, drivers>>

\* destination.insert is called without await: the next batch is requested
\* while the insert is still in flight
FetchYieldsNoAwait ==
    /\ pc = "source.fetch"
    /\ yields < MaxBatches
    /\ yields' = yields + 1
    /\ \E b \in Batches :
        /\ batch' = b
        /\ LET tr1 == Append(trace, Ev("source.yield", b))
               tr2 == IF transformer # "none" THEN Append(tr1, Ev("transform", b)) ELSE tr1
           IN  IF transformer # "none" /\ TransformerThrows(transformer, b)
               THEN BatchFailed(top, TransformError, b, logs,
                                Append(tr2, Ev("transform.fail", <<>>)))
               ELSE Await(top, "source.fetch", <<>>, "none", NoError, logs,
                          Append(tr2, Ev("destination.insert", TransformedBatch(b))))
    /\ UNCHANGED <<fields, config, start, calls, drivers>>

\* the generator yields b: the loop body runs up to await destination.insert
FetchYields ==
    /\ pc = "source.fetch"
    /\ yields < MaxBatches
    /\ yields' = yields + 1
    /\ \E b \in Batches :
        /\ batch' = b
        /\ LET tr1 == Append(trace, Ev("source.yield", b))
               tr2 == IF transformer # "none" THEN Append(tr1, Ev("transform", b)) ELSE tr1
           IN  IF transformer # "none" /\ TransformerThrows(transformer, b)
               THEN BatchFailed(top, TransformError, b, logs,
                                Append(tr2, Ev("transform.fail", <<>>)))
               ELSE Await(top, "destination.insert", TransformedBatch(b), "none", NoError,
                          logs, tr2)
    /\ UNCHANGED <<fields, config, start, calls, drivers>>

\* the generator is exhausted: the loop ends normally
FetchDone ==
    /\ pc = "source.fetch"
    /\ ExitProcess(top, NoError,
                   Log(logs, "info", <<"Data processing completed">>,
                       [totalBatches |-> batchCount, totalRows |-> totalRows,
                        finalCursor |-> currentCursor]),
                   Append(trace, Ev("source.done", <<>>)))
    /\ UNCHANGED <<fields, config, batch, start, calls, yields, drivers>>

\* the generator throws
FetchRejects ==
    /\ pc = "source.fetch"
    /\ ProcessingFailed(top, FetchError, logs, Append(trace, Ev("source.fail", <<>>)))
    /\ UNCHANGED <<fields, config, batch, start, calls, yields, drivers>>

\* await this.destination.insert(transformedBatch) resolves: metrics and
\* cursor are updated and the next batch is requested
InsertResolves ==
    /\ pc = "destination.insert"
    /\ batchCount' = NextBatchCount(batchCount, batch)
    /\ totalRows' = totalRows + CountedRows(batch)
    /\ currentCursor' = NewCursor(totalRows', batch)
    /\ Await(top, "source.fetch", <<>>, "none", NoError,
             Log(logs, "debug", <<"Processed batch ", batchCount'>>,
                 [batchSize |-> Len(batch), totalRows |-> totalRows',
                  cursor |-> currentCursor']),
             Append(trace, Ev("destination.insert.ok", <<>>)))
    /\ UNCHANGED <<connected, config, batch, start, calls, yields, drivers>>

\* the metrics are updated before the insert is awaited, so that a
\* rejected insert has been counted
InsertRejectsCounted ==
    /\ pc = "destination.insert"
    /\ batchCount' = batchCount + 1
    /\ totalRows' = totalRows + Len(batch)
    /\ BatchFailed(top, WriteError, batch, logs,
                   Append(trace, Ev("destination.insert.fail", <<>>)))
    /\ UNCHANGED <<connected, currentCursor, config, batch, start, calls, yields, drivers>>

\* await this.destination.insert(transformedBatch) rejects
InsertRejects ==
    /\ pc = "destination.insert"
    /\ BatchFailed(top, WriteError, batch, logs,
                   Append(trace, Ev("destination.insert.fail", <<>>)))
    /\ UNCHANGED <<fields, config, batch, start, calls, yields, drivers>>

\* await this.source.close() resolves
SourceCloseResolves ==
    /\ pc = "source.close"
    /\ Await(top, "destination.close", <<>>, cleanupCaller, pendingError, logs,
             Append(trace, Ev("source.close.ok", <<>>)))
    /\ UNCHANGED <<fields, config, batch, start, calls, yields, drivers>>

\* a failure closing the Source leaves cleanup() at once: the Destination is
\* not closed and the close error is thrown
SourceCloseRejectsThrows ==
    /\ pc = "source.close"
    /\ Finish(top, "threw", SourceCloseError,
              Log(logs, "error", <<"Cleanup failed">>, SourceCloseError),
              Append(trace, Ev("source.close.fail", <<>>)))
    /\ UNCHANGED <<fields, config, batch, start, calls, yields, drivers>>

\* await this.source.close() rejects: logged, not thrown
SourceCloseRejects ==
    /\ pc = "source.close"
    /\ Await(top, "destination.close", <<>>, cleanupCaller, pendingError,
             Log(logs, "error", <<"Failed to close source connection">>, SourceCloseError),
             Append(trace, Ev("source.close.fail", <<>>)))
    /\ UNCHANGED <<fields, config, batch, start, calls, yields, drivers>>

\* await this.destination.close() resolves
DestinationCloseResolves ==
    /\ pc = "destination.close"
    /\ connected' = FALSE
    /\ CleanupReturned(top, Log(logs, "info", <<"Cleanup completed">>, NoData),
                       Append(trace, Ev("destination.close.ok", <<>>)))
    /\ UNCHANGED <<batchCount, totalRows, currentCursor, config, batch, start, calls, yields, drivers>>

\* await this.destination.close() rejects: logged, not thrown
DestinationCloseRejects ==
    /\ pc = "destination.close"
    /\ connected' = FALSE
    /\ CleanupReturned(top,
                       Log(Log(logs, "error", <<"Failed to close destination connection">>,
                               DestinationCloseError),
                           "info", <<"Cleanup completed">>, NoData),
                       Append(trace, Ev("destination.close.fail", <<>>)))
    /\ UNCHANGED <<batchCount, totalRows, currentCursor, config, batch, start, calls, yields, drivers>>

Next ==
    \/ CallRun
    \/ CallConnect
    \/ CallProcess
    \/ CallCleanup
    \/ SourceConnectResolves
    \/ SourceConnectRejects
    \/ DestinationConnectResolves
    \/ DestinationConnectRejects
    \/ FetchYields
    \/ FetchDone
    \/ FetchRejects
    \/ InsertResolves
    \/ InsertRejects
    \/ SourceCloseResolves
    \/ SourceCloseRejects
    \/ DestinationCloseResolves
    \/ DestinationCloseRejects

Spec == Init /\ [][Next]_vars

\* ---------------------------------------------------- Paginator: fetch()
\* A step is one resumption of the generator by its consumer, or one
\* settlement of the call it awaits, with the code that follows up to the
\* next await or yield.  fetchPc: "start" (fetch() called, next() not yet),
\* "connect" and "query" (awaiting), "yielded" (suspended at the yield),
\* "done" (returned), "failed" (threw), "returned" (closed by its consumer).

CursorFieldSet == "cursorField" \in DOMAIN querySpec
IndexIsNumber == "cursorParamsIndex" \in DOMAIN querySpec

\* queries a fetch() may execute: a filtered backend over n rows is asked at
\* most n + 1 times by a paginator that works through it; the limit lies above
QueryLimit == IF backend = "filtered" THEN MaxKey + 2 ELSE MaxQueries

\* the cursor value is never bound into the params
BoundParamsUnbound(ps, cv) == ps

\* if (cursorField && typeof cursorParamsIndex === 'number' &&
\*     cursorValue !== undefined) params[cursorParamsIndex] = cursorValue
BoundParams(ps, cv) ==
    IF CursorFieldSet /\ IndexIsNumber /\ cv # Undefined
    THEN [ps EXCEPT ![querySpec.cursorParamsIndex + 1] = cv.value]
    ELSE ps

\* only a result without rows ends the sequence: an empty one is yielded
EndsSequenceOnlyMissing(r) == "rows" \notin DOMAIN r

\* if (!rows || rows.length === 0) { hasMore = false; break; }
EndsSequence(r) == "rows" \notin DOMAIN r \/ Len(r.rows) = 0

\* the cursor is read from the first row of the batch
FirstRow(rows) == IF Len(rows) = 0 THEN Undefined ELSE rows[1]

\* const lastRow = rows[rows.length - 1]
LastRow(rows) == IF Len(rows) = 0 THEN Undefined ELSE rows[Len(rows)]

\* lastRow && lastRow[cursorField] !== undefined
CursorReadable(rows) == CursorFieldSet /\ querySpec.cursorField \in DOMAIN LastRow(rows)

\* the loop goes on after every yield, with or without a cursorField
GoesOnAlways(rows) == TRUE

\* the loop goes on whenever a cursorField is configured, even if the last
\* row does not carry it
GoesOnBlind(rows) == CursorFieldSet

\* hasMore after the yield: a cursorField is configured and the last row
\* carries it
GoesOn(rows) == CursorFieldSet /\ CursorReadable(rows)

\* cursorValue = lastRow[cursorField], when the loop goes on with it
NextCursorValue(rows, cv) ==
    IF CursorReadable(rows) THEN [value |-> LastRow(rows)[querySpec.cursorField]]
    ELSE cv

\* the value the query in flight compares the cursor field with
Bound == params[querySpec.cursorParamsIndex + 1]

\* what the backend may resolve the query in flight with
Results ==
    IF backend = "filtered"
    THEN {[rows |-> p] :
            p \in SeqsUpTo({[id |-> k] : k \in {t \in table : t > Bound}}, MaxPageLen)}
    ELSE AnyResults

\* params is this.config.params itself: a write to it is a write to the
\* configuration
AfterWriteShared(spec, ps) == [spec EXCEPT !.params = ps]

\* params = [...this.config.params]: the configuration after the loop has
\* written to its local array, which is a copy
AfterWrite(spec, ps) == spec

\* the head of the while loop up to `await execute(query, params)`
Execute(ps, cv) ==
    /\ Len(queries) < QueryLimit
    /\ cursorValue' = cv
    /\ params' = BoundParams(ps, cv)
    /\ querySpec' = AfterWrite(querySpec, params')
    /\ queries' = Append(queries, params')
    /\ fetchPc' = "query"

\* the first turn of the loop: params is made from this.config.params
Begin ==
    /\ Execute(querySpec.params, Undefined)
    /\ began' = Append(began, params')

\* the consumer's first next(): fetch() runs up to its first await
FetchStart ==
    /\ fetchPc = "start"
    /\ IF connection
       THEN Begin
       ELSE /\ fetchPc' = "connect"
            /\ UNCHANGED <<querySpec, params, cursorValue, queries, began>>
    /\ UNCHANGED <<connection, fetchError, replies, failures, yielded,
                   yieldCount, scenario, backend, table, exceptPaginator>>

\* await this.connect() resolves
ConnectResolves ==
    /\ fetchPc = "connect"
    /\ connection' = TRUE
    /\ Begin
    /\ UNCHANGED <<fetchError, replies, failures, yielded, yieldCount,
                   scenario, backend, table, exceptPaginator>>

\* await this.connect() rejects: fetch() throws
ConnectRejects ==
    /\ fetchPc = "connect"
    /\ fetchPc' = "failed"
    /\ fetchError' = ConnectError
    /\ UNCHANGED <<querySpec, connection, params, cursorValue, queries, replies,
                   failures, yielded, yieldCount, began, scenario, backend, table,
                   exceptPaginator>>

\* await execute(query, params) resolves with r: the sequence ends, or the
\* rows are yielded
QueryResolves ==
    /\ fetchPc = "query"
    /\ \E r \in Results :
        /\ replies' = replies + 1
        /\ scenario' = IF /\ scenario = replies
                          /\ replies < Len(ScenarioResults)
                          /\ r = ScenarioResults[replies + 1]
                       THEN scenario + 1 ELSE scenario
        /\ IF EndsSequence(r)
           THEN /\ fetchPc' = "done"
                /\ UNCHANGED <<yielded, yieldCount>>
           ELSE /\ fetchPc' = "yielded"
                /\ yielded' = r.rows
                /\ yieldCount' = yieldCount + 1
    /\ UNCHANGED <<querySpec, connection, params, cursorValue, fetchError, queries,
                   failures, began, backend, table, exceptPaginator>>

\* a rejected query is executed again
QueryRejectsRetries ==
    /\ fetchPc = "query"
    /\ failures' = failures + 1
    /\ Execute(params, cursorValue)
    /\ UNCHANGED <<connection, fetchError, replies, yielded, yieldCount, began,
                   scenario, backend, table, exceptPaginator>>

\* await execute(query, params) rejects: fetch() throws
QueryRejects ==
    /\ fetchPc = "query"
    /\ failures' = failures + 1
    /\ fetchPc' = "failed"
    /\ fetchError' = QueryError
    /\ UNCHANGED <<querySpec, connection, params, cursorValue, queries, replies,
                   yielded, yieldCount, began, scenario, backend, table,
                   exceptPaginator>>

\* the consumer's next() after a yield: the code after the yield, and the
\* next turn of the loop if hasMore
FetchResume ==
    /\ fetchPc = "yielded"
    /\ IF GoesOn(yielded)
       THEN Execute(params, NextCursorValue(yielded, cursorValue))
       ELSE /\ fetchPc' = "done"
            /\ UNCHANGED <<querySpec, params, cursorValue, queries>>
    /\ UNCHANGED <<connection, fetchError, replies, failures, yielded,
                   yieldCount, began, scenario, backend, table, exceptPaginator>>

\* the consumer leaves its for-await loop at a yielded batch: return() ends
\* the generator where it is suspended
FetchReturn ==
    /\ fetchPc = "yielded"
    /\ fetchPc' = "returned"
    /\ UNCHANGED <<querySpec, connection, params, cursorValue, fetchError, queries,
                   replies, failures, yielded, yieldCount, began, scenario, backend,
                   table, exceptPaginator>>

\* fetch() is called again once the sequence before it is over: a new
\* generator, with new locals and a consumer that has seen nothing
FetchAgain ==
    /\ fetchPc \in {"done", "failed", "returned"}
    /\ Len(began) < MaxFetches
    /\ fetchPc' = "start"
    /\ params' = <<>>
    /\ cursorValue' = Undefined
    /\ fetchError' = NoError
    /\ queries' = <<>>
    /\ replies' = 0
    /\ failures' = 0
    /\ yielded' = <<>>
    /\ yieldCount' = 0
    /\ scenario' = 0
    /\ UNCHANGED <<querySpec, connection, began, backend, table, exceptPaginator>>

\* a consumer that takes every batch, as `for await` does when its body
\* neither breaks nor throws
DrainNext ==
    \/ FetchStart
    \/ ConnectResolves
    \/ ConnectRejects
    \/ QueryResolves
    \/ QueryRejects
    \/ FetchResume

PaginatorNext ==
    \/ FetchStart
    \/ ConnectResolves
    \/ ConnectRejects
    \/ QueryResolves
    \/ QueryRejects
    \/ FetchResume
    \/ FetchReturn
    \/ FetchAgain

\* the Pipeline is constructed and left alone
PipelineUnused == PipelineInit /\ transformer = "none" /\ logger = FALSE

\* fetch() of any Query Spec against a backend that may return anything
PaginatorInit ==
    /\ PipelineUnused
    /\ WriterUnused
    /\ FirestoreUnused
    /\ PaginatorStart
    /\ querySpec \in QuerySpecs
    /\ backend = "any"
    /\ table = {}

SpecPaginator == PaginatorInit /\ [][PaginatorNext]_vars

\* fetch() with cursorField and a cursorParamsIndex that holds the cursor
\* bound, against a finite table whose query returns only rows above the bound
FilteredInit ==
    /\ PipelineUnused
    /\ WriterUnused
    /\ FirestoreUnused
    /\ PaginatorStart
    /\ querySpec \in {q \in QuerySpecs :
                        /\ "cursorField" \in DOMAIN q
                        /\ "cursorParamsIndex" \in DOMAIN q
                        /\ q.params[q.cursorParamsIndex + 1] = InitialCursor}
    /\ backend = "filtered"
    /\ table \in SUBSET Keys

\* every awaited call settles and the consumer asks for the next batch after
\* each one it got
SpecPaginatorFair == FilteredInit /\ [][DrainNext]_vars /\ WF_vars(DrainNext)

\* ---------------------------------------------------- Firestore: fetch()
\* A step is one resumption of the generator by its consumer, or one
\* settlement of the call it awaits, with the code that follows up to the
\* next await or yield.  The backend honours limit(batchSize): a snapshot
\* holds at most limit docs, any docs.

\* the loop goes on after every yield
HasMoreAlways(docs) == TRUE

\* if (docs.length === batchSize) query = query.startAfter(last) else
\* hasMore = false
HasMore(docs) == Len(docs) = limit

\* the head of the while loop: `await query.get()` of the query that starts
\* after position
Get(position) ==
    /\ Len(gets) < MaxQueries
    /\ startAfter' = position
    /\ gets' = Append(gets, position)
    /\ firestorePc' = "get"

\* the consumer's first next(): fetch() runs up to its first await
FirestoreFetch ==
    /\ firestorePc = "start"
    /\ IF db THEN Get(Null)
       ELSE /\ firestorePc' = "connect"
            /\ UNCHANGED <<startAfter, gets>>
    /\ UNCHANGED <<limit, db, lastDocumentSnapshot, snapshots, emitted, pipeline,
                   paginator, writer>>

\* await this.connect() resolves: the query is built and executed
FirestoreConnectResolves ==
    /\ firestorePc = "connect"
    /\ db' = TRUE
    /\ Get(Null)
    /\ UNCHANGED <<limit, lastDocumentSnapshot, snapshots, emitted, pipeline,
                   paginator, writer>>

\* await this.connect() rejects (initializeApp throws): fetch() throws
FirestoreConnectRejects ==
    /\ firestorePc = "connect"
    /\ firestorePc' = "failed"
    /\ UNCHANGED <<limit, db, lastDocumentSnapshot, startAfter, gets, snapshots,
                   emitted, pipeline, paginator, writer>>

\* await query.get() resolves with docs: the sequence ends, or the batch is
\* yielded
GetResolves ==
    /\ firestorePc = "get"
    /\ \E docs \in SeqsUpTo(DocumentSnapshots, limit) :
        /\ snapshots' = Append(snapshots, docs)
        /\ IF Len(docs) = 0
           THEN /\ firestorePc' = "done"
                /\ UNCHANGED <<lastDocumentSnapshot, emitted>>
           ELSE /\ lastDocumentSnapshot' = docs[Len(docs)]
                /\ emitted' = Append(emitted, Plain(docs))
                /\ firestorePc' = "yielded"
    /\ UNCHANGED <<limit, db, startAfter, gets, pipeline, paginator, writer>>

\* await query.get() rejects: fetch() throws
GetRejects ==
    /\ firestorePc = "get"
    /\ firestorePc' = "failed"
    /\ UNCHANGED <<limit, db, lastDocumentSnapshot, startAfter, gets, snapshots,
                   emitted, pipeline, paginator, writer>>

\* the consumer's next() after a yield: the code after the yield, and the
\* next turn of the loop if hasMore
FirestoreResume ==
    /\ firestorePc = "yielded"
    /\ IF HasMore(snapshots[Len(snapshots)]) THEN Get(lastDocumentSnapshot)
       ELSE /\ firestorePc' = "done"
            /\ UNCHANGED <<startAfter, gets>>
    /\ UNCHANGED <<limit, db, lastDocumentSnapshot, snapshots, emitted, pipeline,
                   paginator, writer>>

FirestoreNext ==
    \/ FirestoreFetch
    \/ FirestoreConnectResolves
    \/ FirestoreConnectRejects
    \/ GetResolves
    \/ GetRejects
    \/ FirestoreResume

\* fetch() of a driver with any limit, connected or not
FirestoreInit ==
    /\ PipelineUnused
    /\ PaginatorUnused
    /\ WriterUnused
    /\ limit \in 1..MaxPageLen
    /\ db \in BOOLEAN
    /\ lastDocumentSnapshot = Null
    /\ startAfter = Null
    /\ firestorePc = "start"
    /\ gets = <<>>
    /\ snapshots = <<>>
    /\ emitted = <<>>

SpecFirestore == FirestoreInit /\ [][FirestoreNext]_vars

\* ------------------------------------------- Batched Writer: the drivers
\* A step is one call of a method of the driver up to its first awaited call,
\* or one settlement of the awaited call with the code that follows up to the
\* next awaited call (or to the end of the method).  The methods are called
\* one after the other.  Redshift and Snowflake issue one INSERT per row,
\* Databricks and BigQuery one write for the whole flush unit; "BEGIN" is
\* also Databricks' START TRANSACTION.  The delay between attempts
\* (Snowflake, Databricks) is a timer that fires.  The backend may resolve or
\* reject every call; a connection that is not connected rejects them.  The
\* code is written as functions from the state s of the driver (a record of
\* the variables) to the state it leaves.

Given(name) == name \in DOMAIN writerConfig

\* the retries the code compares its counter with: `maxRetries ?? 3`, and in
\* Databricks `(maxRetries ?? 3) || 3`
MaxRetriesOf ==
    LET given == IF Given("maxRetries") THEN writerConfig.maxRetries ELSE DefaultMaxRetries
    IN  IF adapter = "databricks" /\ given = 0 THEN DefaultMaxRetries ELSE given

\* Redshift: enabled !== false; Snowflake: enabled (truthy); Databricks:
\* enabled ?? true; BigQuery has no transactions
TransactionEnabled ==
    CASE adapter = "redshift" -> ~(Given("enabled") /\ ~writerConfig.enabled)
      [] adapter = "snowflake" -> Given("enabled") /\ writerConfig.enabled
      [] adapter = "databricks" -> IF Given("enabled") THEN writerConfig.enabled ELSE TRUE
      [] OTHER -> FALSE

\* Snowflake: transaction?.maxParallelStatements ?? 1
MaxParallelOf ==
    IF Given("maxParallelStatements") THEN writerConfig.maxParallelStatements ELSE 1

\* Redshift and Snowflake wrap what insert() throws; flushBatch() does not
Surfaced(err) ==
    IF adapter \in Buffered THEN err ELSE [name |-> "InsertFailed", cause |-> err]

\* the state of the driver, of the method in flight and of the backend
Driver ==
    [client |-> client, conn |-> conn, writeStream |-> writeStream,
     pendingRows |-> pendingRows, currentTransaction |-> currentTransaction,
     method |-> method, passed |-> passed, retryCount |-> retryCount, unit |-> unit,
     offset |-> offset, group |-> group, statements |-> statements,
     insertPc |-> insertPc, caught |-> caught, insertResult |-> insertResult,
     attempts |-> attempts, rollbackFailed |-> rollbackFailed, inserts |-> inserts,
     setups |-> setups, closes |-> closes, online |-> online, txOpen |-> txOpen,
     staged |-> staged, stored |-> stored, held |-> held, orphans |-> orphans,
     accepted |-> accepted, rollbacks |-> rollbacks, commits |-> commits,
     otherFailed |-> otherFailed, established |-> established,
     creates |-> creates, piped |-> piped]

\* the step leaves the driver in state s
Becomes(s) ==
    /\ client' = s.client
    /\ conn' = s.conn
    /\ writeStream' = s.writeStream
    /\ pendingRows' = s.pendingRows
    /\ currentTransaction' = s.currentTransaction
    /\ method' = s.method
    /\ passed' = s.passed
    /\ retryCount' = s.retryCount
    /\ unit' = s.unit
    /\ offset' = s.offset
    /\ group' = s.group
    /\ statements' = s.statements
    /\ insertPc' = s.insertPc
    /\ caught' = s.caught
    /\ insertResult' = s.insertResult
    /\ attempts' = s.attempts
    /\ rollbackFailed' = s.rollbackFailed
    /\ inserts' = s.inserts
    /\ setups' = s.setups
    /\ closes' = s.closes
    /\ online' = s.online
    /\ txOpen' = s.txOpen
    /\ staged' = s.staged
    /\ stored' = s.stored
    /\ held' = s.held
    /\ orphans' = s.orphans
    /\ accepted' = s.accepted
    /\ rollbacks' = s.rollbacks
    /\ commits' = s.commits
    /\ otherFailed' = s.otherFailed
    /\ established' = s.established
    /\ creates' = s.creates
    /\ piped' = s.piped
    /\ UNCHANGED <<adapter, writerConfig, exceptWriter>>

\* a method is called: its locals, and what is recorded of it.
\* Pipeline.run() calls connect() first, insert() for every batch after
\* that, and close() once at the end.
Called(name) ==
    [Driver EXCEPT !.method = name, !.passed = 0, !.insertResult = NoInsertResult,
                   !.attempts = 0, !.rollbackFailed = FALSE, !.rollbacks = 0,
                   !.commits = 0, !.otherFailed = FALSE, !.held = stored,
                   !.piped = /\ @
                             /\ closes = 0
                             /\ IF name = "connect" THEN setups = 0 /\ inserts = 0
                                ELSE setups = 1]

\* the method in flight is over: it returns, or throws err.  Pipeline.run()
\* throws what connect() or insert() throws; its cleanup() catches and logs
\* what close() throws.
EndCall(s, err) ==
    LET status == IF err = NoError THEN "returned" ELSE "threw"
    IN  [s EXCEPT !.insertPc = "idle",
                  !.insertResult = [status |-> status, error |-> err],
                  !.caught = NoError, !.statements = <<>>,
                  !.retryCount = 0, !.unit = 0, !.offset = 0, !.group = 0,
                  !.accepted = IF s.method = "insert" /\ err = NoError
                               THEN @ + s.passed ELSE @,
                  !.piped = @ /\ (err = NoError \/ s.method = "close")]

\* the call (a statement, or connecting or releasing) is made and awaited
Issue(s, call) ==
    [s EXCEPT !.insertPc = call,
              !.rollbacks = IF call \in {"ROLLBACK", "FINAL ROLLBACK"} THEN @ + 1 ELSE @,
              !.commits = IF call \in {"COMMIT", "FINAL COMMIT"} THEN @ + 1 ELSE @,
              !.creates = IF call = "CREATE TABLE" THEN @ + 1 ELSE @]

\* the backend: what the statement stmt does once it takes effect (an INSERT
\* writes n rows).  Redshift's TRUNCATE commits the transaction it is issued
\* in and empties the table.
Effect(s, stmt, n) ==
    CASE stmt = "INSERT" ->
            IF s.txOpen THEN [s EXCEPT !.staged = @ + n] ELSE [s EXCEPT !.stored = @ + n]
      [] stmt = "BEGIN" -> [s EXCEPT !.txOpen = TRUE]
      [] stmt \in {"COMMIT", "FINAL COMMIT"} ->
            [s EXCEPT !.stored = @ + s.staged, !.staged = 0, !.txOpen = FALSE]
      [] stmt \in {"ROLLBACK", "FINAL ROLLBACK"} -> [s EXCEPT !.staged = 0, !.txOpen = FALSE]
      [] stmt = "TRUNCATE" -> [s EXCEPT !.stored = 0, !.staged = 0, !.txOpen = FALSE]
      [] OTHER -> s

\* ---- close() and flushBatch()
\* Databricks: the finally block of close(), after which close() throws
\* what its try block threw, if anything
Finally(s) ==
    IF s.conn THEN Issue(s, "CLOSE CONNECTION")
    ELSE IF s.client THEN Issue(s, "CLOSE CLIENT")
    ELSE EndCall(s, s.caught)

\* flushBatch() is over, returning (err is NoError) or throwing err, to
\* insert() or to close().  Databricks' close() then commits an open
\* transaction and goes to its finally block; BigQuery's ends the write
\* stream and forgets table and client, or throws err.
FlushOver(s, err) ==
    CASE s.method = "insert" -> EndCall(s, err)
      [] s.method # "insert" /\ adapter = "databricks" ->
            IF err = NoError /\ s.currentTransaction THEN Issue(s, "FINAL COMMIT")
            ELSE Finally([s EXCEPT !.caught = err])
      [] OTHER ->
            IF err # NoError THEN EndCall(s, err)
            ELSE IF s.writeStream THEN Issue(s, "END STREAM")
            ELSE EndCall([s EXCEPT !.conn = FALSE, !.client = FALSE, !.online = FALSE],
                         NoError)

\* ---- an attempt on the flush unit
\* the writes of the sub-batch rows.slice(i, i + batchSize) are issued:
\* every row's INSERT at once (batch.map), or the one write of the whole unit
StartWrites(s, i) ==
    LET size == IF s.unit - i < writerConfig.batchSize THEN s.unit - i
                ELSE writerConfig.batchSize
    IN  [Issue(s, "INSERT") EXCEPT
            !.statements = IF adapter \in Buffered THEN <<"pending">>
                           ELSE [k \in 1..size |-> "pending"],
            !.offset = i, !.group = 0]

\* the try block of an attempt, from its start (done = 0) or from the
\* statement that resolved (done = 1: TRUNCATE, 2: BEGIN, 3: ALTER SESSION,
\* 4: the row writes, 5: COMMIT) to the next statement it awaits, or to its end
Try(s, done) ==
    IF done < 1 /\ adapter = "redshift" /\ Given("truncate") THEN Issue(s, "TRUNCATE")
    ELSE IF /\ done < 2
            /\ TransactionEnabled
            /\ (adapter # "databricks" \/ ~s.currentTransaction) THEN Issue(s, "BEGIN")
    ELSE IF done < 3 /\ adapter = "snowflake" /\ Given("queryTimeout")
    THEN Issue(s, "ALTER SESSION")
    ELSE IF done < 4 THEN StartWrites(s, 0)
    ELSE IF done < 5 /\ TransactionEnabled THEN Issue(s, "COMMIT")
    ELSE IF adapter \in Buffered THEN FlushOver(s, NoError)
    ELSE EndCall(s, NoError)

\* an attempt starts: the try block up to its first awaited statement
StartAttempt(s) == Try([s EXCEPT !.attempts = @ + 1, !.caught = NoError], 0)

\* the end of the catch block: another attempt, or the error is thrown.
\* Redshift, Snowflake: if (retryCount < maxRetries) { retryCount++; retry }.
\* Databricks (retryCount is attempt, already incremented): if (attempt >=
\* maxRetries) throw, else the while loop goes round.
RetryOrThrow(s, err) ==
    IF adapter = "databricks"
    THEN IF s.retryCount >= MaxRetriesOf THEN FlushOver(s, err) ELSE StartAttempt(s)
    ELSE IF s.retryCount < MaxRetriesOf THEN StartAttempt([s EXCEPT !.retryCount = @ + 1])
         ELSE EndCall(s, Surfaced(err))

\* a statement of the try block failed with err: the catch block up to its
\* ROLLBACK, or to its end.  BigQuery's flushBatch() has no try block.
Caught(s, err) ==
    CASE adapter = "bigquery" -> FlushOver(s, err)
      [] adapter = "databricks" ->
            LET t == [s EXCEPT !.retryCount = @ + 1]
            IN  IF t.currentTransaction THEN [Issue(t, "ROLLBACK") EXCEPT !.caught = err]
                ELSE RetryOrThrow(t, err)
      [] OTHER ->
            IF TransactionEnabled THEN [Issue(s, "ROLLBACK") EXCEPT !.caught = err]
            ELSE RetryOrThrow(s, err)

\* the write statements in flight
Pending(st) == {k \in DOMAIN st : st[k] = "pending"}

\* the rejection of an awaited statement as it would be handled if
\* Databricks left currentTransaction as it is when its ROLLBACK is rejected
FailedKeepsFlag(s) ==
    LET err == StatementError(s.insertPc)
        t == [s EXCEPT !.otherFailed = @ \/ s.insertPc # "INSERT",
                       !.rollbackFailed = @ \/ s.insertPc \in {"ROLLBACK", "FINAL ROLLBACK"}]
    IN  CASE s.insertPc = "ROLLBACK" ->
                IF adapter = "databricks" THEN RetryOrThrow(t, s.caught)
                ELSE EndCall(t, Surfaced(err))
          [] s.insertPc = "FINAL COMMIT" -> [Issue(t, "FINAL ROLLBACK") EXCEPT !.caught = err]
          [] s.insertPc = "FINAL ROLLBACK" -> Finally([t EXCEPT !.caught = err])
          [] OTHER ->
                Caught([t EXCEPT !.orphans = @ + Cardinality(Pending(s.statements)),
                                 !.statements = <<>>], err)

\* the awaited statement was rejected.  In the try block of an attempt: the
\* code stops awaiting the sub-batch (what is in flight stays in flight) and
\* enters the catch block.  ROLLBACK: Databricks catches and reports the
\* rejection and goes on as if it had resolved; in Redshift and Snowflake it
\* leaves the catch block.  In Databricks' close(): a rejected COMMIT is
\* followed by ROLLBACK and thrown, a rejected ROLLBACK is thrown.
Failed(s) ==
    LET err == StatementError(s.insertPc)
        t == [s EXCEPT !.otherFailed = @ \/ s.insertPc # "INSERT",
                       !.rollbackFailed = @ \/ s.insertPc \in {"ROLLBACK", "FINAL ROLLBACK"}]
    IN  CASE s.insertPc = "ROLLBACK" ->
                IF adapter = "databricks"
                THEN RetryOrThrow([t EXCEPT !.currentTransaction = FALSE], s.caught)
                ELSE EndCall(t, Surfaced(err))
          [] s.insertPc = "FINAL COMMIT" -> [Issue(t, "FINAL ROLLBACK") EXCEPT !.caught = err]
          [] s.insertPc = "FINAL ROLLBACK" -> Finally([t EXCEPT !.caught = err])
          [] OTHER ->
                Caught([t EXCEPT !.orphans = @ + Cardinality(Pending(s.statements)),
                                 !.statements = <<>>], err)

\* the awaited statement resolved: its effect, and the code that follows.
\* COMMIT and ROLLBACK of an attempt set Databricks' currentTransaction to
\* false, BEGIN to true; the COMMIT of its close() leaves it.
Resolved(s) ==
    LET t == Effect(s, s.insertPc, 0)
        flag(v) == [t EXCEPT !.currentTransaction = IF adapter = "databricks" THEN v ELSE @]
    IN  CASE s.insertPc = "TRUNCATE" -> Try(t, 1)
          [] s.insertPc = "BEGIN" -> Try(flag(TRUE), 2)
          [] s.insertPc = "ALTER SESSION" -> Try(t, 3)
          [] s.insertPc = "COMMIT" -> Try(flag(FALSE), 5)
          [] s.insertPc = "ROLLBACK" -> RetryOrThrow(flag(FALSE), s.caught)
          [] OTHER -> Finally(t)

\* the statements the code awaits: Promise.all over the sub-batch, in
\* Snowflake over batchPromises.slice(j, j + maxParallel)
Awaited(s) ==
    IF adapter = "snowflake"
    THEN {k \in DOMAIN s.statements : s.group < k /\ k <= s.group + MaxParallelOf}
    ELSE DOMAIN s.statements

\* a write statement has settled: Promise.all rejects once an awaited
\* statement has failed, resolves once all have resolved; then the next
\* statements awaited, the next sub-batch, or the rest of the try block
RECURSIVE Advance(_)
Advance(s) ==
    LET g == Awaited(s)
    IN  IF \E k \in g : s.statements[k] = "failed" THEN Failed(s)
        ELSE IF \E k \in g : s.statements[k] = "pending" THEN s
        ELSE IF adapter = "snowflake" /\ s.group + MaxParallelOf < Len(s.statements)
        THEN Advance([s EXCEPT !.group = @ + MaxParallelOf])
        ELSE IF adapter \notin Buffered /\ s.offset + writerConfig.batchSize < s.unit
        THEN StartWrites(s, s.offset + writerConfig.batchSize)
        ELSE Try([s EXCEPT !.statements = <<>>], 4)

\* flushBatch() as it would be if it read the buffer without emptying it
FlushBatchKeepsRows(s) ==
    LET t == [s EXCEPT !.unit = s.pendingRows, !.retryCount = 0]
    IN  IF s.pendingRows = 0 \/ (adapter = "databricks" /\ ~s.conn)
        THEN FlushOver(s, NoError)
        ELSE IF adapter = "bigquery" /\ ~s.writeStream /\ ~s.conn
        THEN FlushOver(t, [name |-> "TypeError"])
        ELSE StartAttempt(t)

\* ---- insert()
\* Databricks: flushBatch() does nothing without connection or rows, else
\* takes the buffer as its unit.  BigQuery: nothing without rows; writes to
\* the stream, or calls insert on this.table, which is null if connect() failed
FlushBatch(s) ==
    LET t == [s EXCEPT !.unit = s.pendingRows, !.pendingRows = 0, !.retryCount = 0]
    IN  IF s.pendingRows = 0 \/ (adapter = "databricks" /\ ~s.conn)
        THEN FlushOver(s, NoError)
        ELSE IF adapter = "bigquery" /\ ~s.writeStream /\ ~s.conn
        THEN FlushOver(t, [name |-> "TypeError"])
        ELSE StartAttempt(t)

\* Databricks, BigQuery: the rows join the buffer, which is flushed once it
\* holds batchSize rows
Buffer(s) ==
    LET t == [s EXCEPT !.pendingRows = @ + s.passed]
    IN  IF t.pendingRows >= writerConfig.batchSize THEN FlushBatch(t)
        ELSE EndCall(t, NoError)

\* ---- connect()
\* connect() is over, returning (err is NoError) or throwing err, which
\* Redshift and Snowflake wrap; the insert() that called it goes on, or
\* throws the same
ConnectOver(s, err) ==
    IF err = NoError
    THEN IF s.method = "insert" THEN Buffer(s) ELSE EndCall(s, NoError)
    ELSE EndCall(s, IF adapter \in Buffered THEN err
                    ELSE [name |-> "ConnectFailed", cause |-> err])

\* connect() up to its first awaited call.  Redshift: this.pool = new Pool.
\* Snowflake: this.connection = createConnection(...), not yet connected.
\* Databricks, BigQuery: nothing to do if this.client is set, else
\* this.client = new client, which is BigQuery's connection.
Connect(s) ==
    CASE adapter = "redshift" -> Issue([s EXCEPT !.client = TRUE], "CONNECT")
      [] adapter = "snowflake" -> Issue([s EXCEPT !.conn = TRUE, !.online = FALSE], "CONNECT")
      [] adapter = "databricks" ->
            IF s.client THEN ConnectOver(s, NoError)
            ELSE Issue([s EXCEPT !.client = TRUE], "CONNECT")
      [] OTHER ->
            IF s.client THEN ConnectOver(s, NoError)
            ELSE Issue([s EXCEPT !.client = TRUE, !.online = TRUE,
                                 !.established = @ + 1], "DATASET EXISTS")

\* the calls connect() awaits
SetupCalls == {"CONNECT", "USE", "CREATE TABLE", "SHOW TABLES", "DATASET EXISTS",
               "DATASET CREATE", "TABLE EXISTS", "TABLE CREATE"}

\* the awaited call of connect() resolved, with the answer exists where it
\* asks whether something exists.  CONNECT (pool.connect(),
\* connection.connect(), client.connect()): the backend connection is
\* established.
AfterSetup(s, exists) ==
    LET opened == [s EXCEPT !.conn = TRUE, !.online = TRUE, !.established = @ + 1]
        askTable == Issue([s EXCEPT !.conn = TRUE], "TABLE EXISTS")
        stream == ConnectOver([s EXCEPT !.writeStream = IF Given("writeOptions")
                                                        THEN TRUE ELSE @], NoError)
    IN  CASE s.insertPc = "CONNECT" ->
                IF adapter = "databricks" THEN Issue(opened, "USE")
                ELSE IF Given("createTableOptions") THEN Issue(opened, "CREATE TABLE")
                ELSE ConnectOver(opened, NoError)
          [] s.insertPc = "USE" ->
                IF Given("createTableOptions") THEN Issue(s, "CREATE TABLE")
                ELSE Issue(s, "SHOW TABLES")
          [] s.insertPc = "SHOW TABLES" ->
                ConnectOver(s, IF exists THEN NoError ELSE [name |-> "TableMissing"])
          [] s.insertPc = "CREATE TABLE" -> ConnectOver(s, NoError)
          [] s.insertPc = "DATASET EXISTS" ->
                IF exists THEN askTable ELSE Issue(s, "DATASET CREATE")
          [] s.insertPc = "DATASET CREATE" -> askTable
          [] s.insertPc = "TABLE EXISTS" ->
                IF exists THEN stream
                ELSE IF Given("createTableOptions") THEN Issue(s, "TABLE CREATE")
                ELSE ConnectOver(s, [name |-> "TableMissing"])
          [] OTHER -> stream

\* ---- insert(rows) and close(), up to the first awaited call
\* Redshift, Snowflake: 'Not connected' without a connection, nothing to do
\* for no rows, else the rows are the flush unit.  Databricks, BigQuery:
\* connect() first if not connected, then the rows are buffered.
Insert(s) ==
    IF adapter \in Buffered
    THEN IF ~s.conn \/ (adapter = "bigquery" /\ ~s.client) THEN Connect(s) ELSE Buffer(s)
    ELSE IF ~s.conn \/ (adapter = "redshift" /\ ~s.client)
         THEN EndCall(s, [name |-> "NotConnected"])
         ELSE IF s.passed = 0 THEN EndCall(s, NoError)
         ELSE StartAttempt([s EXCEPT !.unit = s.passed, !.retryCount = 0])

\* Redshift: the client is released, the pool ended.  Snowflake: the
\* connection destroyed.  Databricks, BigQuery: the buffer is flushed first.
Close(s) ==
    CASE adapter = "redshift" ->
            LET t == [s EXCEPT !.conn = FALSE, !.online = IF s.conn THEN FALSE ELSE @]
            IN  IF t.client THEN Issue(t, "POOL END") ELSE EndCall(t, NoError)
      [] adapter = "snowflake" ->
            IF s.conn THEN Issue(s, "DESTROY") ELSE EndCall(s, NoError)
      [] OTHER -> IF s.pendingRows > 0 THEN FlushBatch(s) ELSE FlushOver(s, NoError)

\* the calls close() awaits to release what the driver holds
ReleaseCalls == {"POOL END", "DESTROY", "CLOSE CONNECTION", "CLOSE CLIENT", "END STREAM"}

\* the awaited release resolved
Released(s) ==
    CASE s.insertPc = "POOL END" -> EndCall([s EXCEPT !.client = FALSE], NoError)
      [] s.insertPc = "DESTROY" ->
            EndCall([s EXCEPT !.conn = FALSE, !.online = FALSE], NoError)
      [] s.insertPc = "CLOSE CONNECTION" ->
            Finally([s EXCEPT !.conn = FALSE, !.online = FALSE])
      [] s.insertPc = "CLOSE CLIENT" -> EndCall([s EXCEPT !.client = FALSE], s.caught)
      [] OTHER ->
            EndCall([s EXCEPT !.writeStream = FALSE, !.conn = FALSE,
                              !.client = FALSE, !.online = FALSE], NoError)

\* -------------------------------------------- Batched Writer: the actions
\* insert(rows) is called, with n rows
CallInsert ==
    /\ insertPc = "idle"
    /\ inserts < MaxInserts
    /\ \E n \in 0..MaxRows :
        Becomes(Insert([Called("insert") EXCEPT !.passed = n, !.inserts = @ + 1]))

\* connect() is called
DriverConnect ==
    /\ insertPc = "idle"
    /\ setups < MaxSetups
    /\ Becomes(Connect([Called("connect") EXCEPT !.setups = @ + 1]))

\* close() is called
DriverClose ==
    /\ insertPc = "idle"
    /\ setups < MaxSetups
    /\ Becomes(Close([Called("close") EXCEPT !.setups = @ + 1, !.closes = @ + 1]))

\* an awaited call of connect() resolves
SetupResolves ==
    /\ insertPc \in SetupCalls
    /\ insertPc = "CONNECT" \/ online
    /\ \E exists \in BOOLEAN : Becomes(AfterSetup(Driver, exists))

\* an awaited call of connect() is rejected
SetupRejects ==
    /\ insertPc \in SetupCalls
    /\ Becomes(ConnectOver(Driver, IF insertPc = "CONNECT" THEN ConnectError
                                   ELSE StatementError(insertPc)))

\* the awaited TRUNCATE, BEGIN, ALTER SESSION, COMMIT or ROLLBACK resolves
StatementResolves ==
    /\ insertPc \in {"TRUNCATE", "BEGIN", "ALTER SESSION", "COMMIT", "ROLLBACK",
                     "FINAL COMMIT", "FINAL ROLLBACK"}
    /\ online
    /\ Becomes(Resolved(Driver))

\* the awaited TRUNCATE, BEGIN, ALTER SESSION, COMMIT or ROLLBACK is rejected
StatementRejects ==
    /\ insertPc \in {"TRUNCATE", "BEGIN", "ALTER SESSION", "COMMIT", "ROLLBACK",
                     "FINAL COMMIT", "FINAL ROLLBACK"}
    /\ Becomes(Failed(Driver))

\* a write statement in flight resolves: its rows are written
WriteResolves ==
    /\ insertPc = "INSERT"
    /\ online
    /\ \E k \in Pending(statements) :
        Becomes(Advance(Effect([Driver EXCEPT !.statements[k] = "ok"], "INSERT",
                               IF adapter \in Buffered THEN unit ELSE 1)))

\* a write statement in flight is rejected
WriteRejects ==
    /\ insertPc = "INSERT"
    /\ \E k \in Pending(statements) :
        Becomes(Advance([Driver EXCEPT !.statements[k] = "failed"]))

\* a write statement that no code awaits settles: its row is written, or not
OrphanSettles ==
    /\ orphans > 0
    /\ \E ok \in BOOLEAN :
        LET s == [Driver EXCEPT !.orphans = @ - 1]
        IN  Becomes(IF ok /\ online THEN Effect(s, "INSERT", 1) ELSE s)

\* an awaited release of close() resolves
ReleaseResolves ==
    /\ insertPc \in ReleaseCalls
    /\ Becomes(Released(Driver))

\* an awaited release of close() is rejected: close() throws that (Redshift
\* wraps it)
ReleaseRejects ==
    /\ insertPc \in ReleaseCalls
    /\ LET err == [name |-> "ReleaseError", call |-> insertPc]
       IN  Becomes(EndCall(Driver, IF adapter = "redshift"
                                   THEN [name |-> "CloseFailed", cause |-> err]
                                   ELSE err))

\* insert() on a connected driver
WriterNext ==
    \/ CallInsert
    \/ StatementResolves
    \/ StatementRejects
    \/ WriteResolves
    \/ WriteRejects
    \/ OrphanSettles

\* a connected driver of any of the four kinds, with any configuration
WriterInit ==
    /\ PipelineUnused
    /\ PaginatorUnused
    /\ FirestoreUnused
    /\ adapter \in Adapters
    /\ writerConfig \in WriterConfigs(adapter)
    /\ Connected

SpecWriter == WriterInit /\ [][WriterNext]_vars

\* connect(), insert() and close() on a driver as constructed
DriverNext ==
    \/ DriverConnect
    \/ SetupResolves
    \/ SetupRejects
    \/ DriverClose
    \/ ReleaseResolves
    \/ ReleaseRejects
    \/ WriterNext

DriverInit ==
    /\ PipelineUnused
    /\ PaginatorUnused
    /\ FirestoreUnused
    /\ adapter \in Adapters
    /\ writerConfig \in SetupConfigs(adapter)
    /\ Constructed

SpecDriver == DriverInit /\ [][DriverNext]_vars

\* ------------------------------------------------------------ observations
\* the call the trace belongs to
CurOp == IF top = "none" THEN result.op ELSE top
CallDone(op) == top = "none" /\ result.op = op
RunReturned == CallDone("run") /\ result.status = "returned"
RunThrew == CallDone("run") /\ result.status = "threw"

\* the positions of the events `name` in a trace, and how many of a set of
\* positions lie before position i
At(tr, name) == {j \in 1..Len(tr) : tr[j].ev = name}
Before(S, i) == Cardinality({j \in S : j < i})
Has(tr, name) == \E j \in 1..Len(tr) : tr[j].ev = name
\* the original batches whose insert returned successfully, in order
InsertedOk(tr) == SubSeq(Yielded(tr), 1, Count(tr, "destination.insert.ok"))

ProcessFailures == {"source.fail", "transform.fail", "destination.insert.fail"}
ConnectFailures == {"source.connect.fail", "destination.connect.fail"}
LoopCalls == {"source.fetch", "source.yield", "transform", "destination.insert"}
FailedAt(tr, kinds) == {i \in 1..Len(tr) : tr[i].ev \in kinds}
ErrorOf(ev) ==
    CASE ev = "source.fail" -> FetchError
      [] ev = "transform.fail" -> TransformError
      [] ev = "destination.insert.fail" -> WriteError
      [] ev = "source.connect.fail" -> SourceConnectError
      [] ev = "destination.connect.fail" -> DestinationConnectError
      [] OTHER -> NoError

\* ------------------------------------------------------------------ claims

\* C1 as stated: after every successful run(), totalRows equals the sum of
\* the lengths of the original batches the Source yielded in that run.
C1_TotalRowsIsSumOfRun ==
    RunReturned => totalRows = SumLen(Yielded(trace))

\* C1 amended: every successful run() raises totalRows by exactly the sum of
\* the lengths of the original (pre-transform) batches the Source yielded in
\* that run, whatever the length of the transformed batches; totalRows equals
\* that sum when no row had been counted before the run.
C1_TotalRowsGrowsBySum ==
    RunReturned => totalRows = start.totalRows + SumLen(Yielded(trace))

\* C1 witness: a successful run on an instance that had counted rows before,
\* with a transformer that shortened a batch.
C1_Witness ==
    /\ RunReturned
    /\ start.totalRows > 0
    /\ transformer = "dropOdd"
    /\ \E i \in 1..Len(Received(trace)) :
          Len(Received(trace)[i]) < Len(Yielded(trace)[i])

\* C2 as stated: after every successful run(), batchCount equals the number
\* of batches the Source yielded in that run.
C2_BatchCountIsYieldsOfRun ==
    RunReturned => batchCount = Len(Yielded(trace))

\* C2 amended: every successful run() raises batchCount by exactly the number
\* of batches the Source yielded in that run, which is the number of
\* Destination.insert calls that returned successfully; batchCount equals
\* that number when no batch had been counted before the run.
C2_BatchCountGrowsByYields ==
    RunReturned =>
        /\ batchCount = start.batchCount + Len(Yielded(trace))
        /\ Len(Yielded(trace)) = Count(trace, "destination.insert.ok")
        /\ Count(trace, "destination.insert") = Count(trace, "destination.insert.ok")

\* C2 witness: a successful run that processed a batch on an instance that
\* had counted a batch before.
C2_Witness ==
    /\ RunReturned
    /\ start.batchCount > 0
    /\ Len(Yielded(trace)) > 0

\* C3: batches reach Destination.insert in the order the Source yields them;
\* the next batch is requested only when every batch yielded so far has been
\* passed to insert and that insert has returned; no two inserts overlap;
\* without a transformer the Destination receives exactly the yielded batches.
C3_InOrderNoOverlap ==
    LET y == Yielded(trace)
        r == Received(trace)
        fetchAt == At(trace, "source.fetch")
        yieldAt == At(trace, "source.yield")
        insertAt == At(trace, "destination.insert")
        returnAt == At(trace, "destination.insert.ok")
    IN  /\ Len(r) <= Len(y)
        /\ Len(y) <= Len(r) + 1
        /\ \A i \in 1..Len(r) :
              r[i] = IF transformer = "none" THEN y[i] ELSE Transformer(transformer, y[i])
        /\ \A i \in fetchAt :
              /\ Before(yieldAt, i) = Before(returnAt, i)
              /\ Before(insertAt, i) = Before(returnAt, i)
        /\ \A i \in insertAt : Before(insertAt, i) = Before(returnAt, i)

\* C3 witness: two batches went through in one call without a transformer
\* and a third request is out.
C3_Witness ==
    /\ pc = "source.fetch"
    /\ transformer = "none"
    /\ Len(Received(trace)) = 2
    /\ Received(trace)[1] # Received(trace)[2]

C5_CleanupExactlyOncePerRun ==
    /\ top = "run" =>
          /\ Count(trace, "source.close") <= 1
          /\ Count(trace, "destination.close") <= 1
    /\ CallDone("run") =>
          /\ Count(trace, "source.close") = 1
          /\ Count(trace, "destination.close") = 1

\* C5 witness: a run() that failed to connect to the Destination is over.
C5_Witness ==
    /\ RunThrew
    /\ Has(trace, "destination.connect.fail")

\* C6: once a fetch, a transform or an insert has failed, the call makes no
\* further fetch, transform or insert (a batch whose transform threw is never
\* inserted), and run() throws that very error.
C6_ErrorAbortsLoop ==
    \A i \in FailedAt(trace, ProcessFailures) :
        /\ \A j \in (i + 1)..Len(trace) : trace[j].ev \notin LoopCalls
        /\ top # "none" /\ cleanupCaller = "run" => pendingError = ErrorOf(trace[i].ev)
        /\ top = "none" =>
              /\ result.status = "threw"
              /\ result.error = ErrorOf(trace[i].ev)

\* C6 witness: a run() whose transformer threw on the second batch is over.
C6_Witness ==
    /\ RunThrew
    /\ Has(trace, "transform.fail")
    /\ Len(Yielded(trace)) = 2

\* C7: once the transform or the insert of a batch has failed, batchCount,
\* totalRows and the cursor are what the successful inserts before it made
\* them, and so is getMetrics() after the failed run.
C7_FailedBatchLeavesMetrics ==
    Has(trace, "transform.fail") \/ Has(trace, "destination.insert.fail") =>
        LET done == InsertedOk(trace)
        IN  /\ getMetrics.batchCount = start.batchCount + Len(done)
            /\ getMetrics.totalRows = start.totalRows + SumLen(done)
            /\ getMetrics.cursor =
                  IF done = <<>> THEN start.currentCursor
                  ELSE [position |-> getMetrics.totalRows,
                        lastItem |-> LastItem(done[Len(done)]),
                        timestamp |-> Now]

\* C7 witness: a run() failed on the insert of its second batch.
C7_Witness ==
    /\ RunThrew
    /\ Has(trace, "destination.insert.fail")
    /\ Len(InsertedOk(trace)) = 1
    /\ InsertedOk(trace)[1] # <<>>

\* C8 as stated: the error run() throws after a failure during processing
\* carries the last known Pipeline Cursor.
C8_ThrownErrorCarriesCursor ==
    RunThrew /\ FailedAt(trace, ProcessFailures) # {} =>
        /\ "cursor" \in DOMAIN result.error
        /\ result.error.cursor = currentCursor

\* C8 amended: a failure during processing surfaces as one thrown error, the
\* error of the failing fetch, transform or insert itself, unchanged and
\* carrying no cursor; the last known Pipeline Cursor is handed to the logger
\* (if there is one) with the "Data processing failed" entry and stays
\* readable through getMetrics().
C8_ErrorRethrownCursorLogged ==
    RunThrew /\ FailedAt(trace, ProcessFailures) # {} =>
        /\ \E i \in FailedAt(trace, ProcessFailures) : result.error = ErrorOf(trace[i].ev)
        /\ "cursor" \notin DOMAIN result.error
        /\ logger =>
              \E k \in 1..Len(logs) :
                  /\ logs[k].level = "error"
                  /\ logs[k].message = <<"Data processing failed">>
                  /\ logs[k].data = [error |-> result.error, lastCursor |-> getMetrics.cursor]

\* C8 witness: a logged run() failed on an insert after a batch had gone
\* through.
C8_Witness ==
    /\ RunThrew
    /\ logger
    /\ Has(trace, "destination.insert.fail")
    /\ Count(trace, "destination.insert.ok") > 0

\* C9: when Source.connect or Destination.connect fails during run(), the
\* cleanup starts at once, the flag connected is false from then on, the run
\* makes no fetch and no insert, and run() throws the connect error.
C9_ConnectFailureAbortsRun ==
    CurOp = "run" =>
        \A i \in FailedAt(trace, ConnectFailures) :
            /\ Len(trace) > i
            /\ trace[i + 1].ev = "source.close"
            /\ ~connected
            /\ ~Has(trace, "source.fetch")
            /\ ~Has(trace, "destination.insert")
            /\ top = "none" =>
                  /\ result.status = "threw"
                  /\ result.error = ErrorOf(trace[i].ev)

\* C9 witness: a run() whose Destination.connect failed is over.
C9_Witness ==
    /\ RunThrew
    /\ result.error = DestinationConnectError
    /\ Has(trace, "source.connect.ok")

\* C10: a connect() made while connected is a no-op (no driver call, no
\* field changed, it returns), and a connect() that returns after starting
\* unconnected has connected each driver exactly once: two connect() calls
\* in a row make one Source.connect and one Destination.connect.
C10_ConnectIdempotent ==
    CallDone("connect") =>
        /\ start.connected =>
              /\ trace = <<>>
              /\ result.status = "returned"
              /\ Snapshot = start
        /\ ~start.connected /\ result.status = "returned" =>
              /\ Count(trace, "source.connect") = 1
              /\ Count(trace, "destination.connect") = 1
              /\ connected

\* C10 witness: the second of two connect() calls in a row is over.
C10_Witness ==
    /\ CallDone("connect")
    /\ calls = 2
    /\ start.connected

\* what the cleanup() of the call has met so far
CloseFailures == {"source.close.fail", "destination.close.fail"}
CloseErrors == {SourceCloseError, DestinationCloseError}
CleanupOver(tr) == Has(tr, "destination.close.ok") \/ Has(tr, "destination.close.fail")
Logged(level, message, data) ==
    \E k \in 1..Len(logs) :
        logs[k] = [level |-> level, message |-> message, data |-> data]

\* C11: cleanup() always attempts both closes: whatever Source.close did
\* (resolve or fail), Destination.close is called next; a close failure is
\* handed to the logger and when only one of the two closes failed nothing is
\* thrown because of it (cleanup() returns, run() ends as process() ended);
\* once cleanup() is over the flag connected is false.
C11_CleanupAttemptsBothCloses ==
    /\ \A i \in 1..Len(trace) :
          trace[i].ev \in {"source.close.ok", "source.close.fail"} =>
              /\ Len(trace) > i
              /\ trace[i + 1].ev = "destination.close"
    /\ logger /\ Has(trace, "source.close.fail") =>
          Logged("error", <<"Failed to close source connection">>, SourceCloseError)
    /\ logger /\ Has(trace, "destination.close.fail") =>
          Logged("error", <<"Failed to close destination connection">>, DestinationCloseError)
    /\ CleanupOver(trace) =>
          /\ ~connected
          /\ Count(trace, "source.close") = Count(trace, "destination.close")
    /\ top = "none" /\ Cardinality(FailedAt(trace, CloseFailures)) = 1 =>
          /\ result.error \notin CloseErrors
          /\ result.status = "threw" <=>
                FailedAt(trace, ProcessFailures \cup ConnectFailures) # {}

\* C11 witness: a logged run() that went through and whose Source failed to
\* close (the Destination closed) has returned.
C11_Witness ==
    /\ RunReturned
    /\ logger
    /\ start.connected = FALSE
    /\ Has(trace, "source.close.fail")
    /\ Has(trace, "destination.close.ok")
    /\ Count(trace, "destination.insert.ok") > 0

\* C12 as stated: when both Source.close and Destination.close have failed
\* during the cleanup() of a call, that call throws (cleanup() itself, and
\* run() whose finally block ran it).
C12_BothCloseFailuresThrow ==
    /\ top = "none"
    /\ CurOp \in {"cleanup", "run"}
    /\ Has(trace, "source.close.fail")
    /\ Has(trace, "destination.close.fail")
    => result.status = "threw"

\* C13 (state part): the cursor is absent exactly when batchCount = 0, and a
\* cursor that is present has position = totalRows.
C13_CursorAgreesWithMetrics ==
    /\ currentCursor = Null <=> batchCount = 0
    /\ currentCursor # Null => currentCursor.position = totalRows
    /\ getMetrics.cursor = currentCursor

\* C13 (step part): no step of any operation lowers or resets batchCount or
\* totalRows, and a cursor once present never becomes absent.
C13_MetricsNeverDecrease ==
    /\ batchCount' >= batchCount
    /\ totalRows' >= totalRows
    /\ currentCursor # Null => currentCursor' # Null

\* C13: over any sequence of operations on one instance batchCount and
\* totalRows never decrease and are never reset, the cursor is absent exactly
\* when batchCount = 0, and a present cursor has position = totalRows.
C13_MetricsMonotoneCursorConsistent ==
    [](C13_CursorAgreesWithMetrics) /\ [][C13_MetricsNeverDecrease]_vars

\* C13 witness: a second call on the instance failed and was cleaned up after
\* a first one had counted rows; the metrics of the first are still there.
C13_Witness ==
    /\ calls = 2
    /\ top = "none"
    /\ result.status = "threw"
    /\ CleanupOver(trace)
    /\ start.totalRows > 0
    /\ totalRows = start.totalRows
    /\ currentCursor # Null

\* C30: within a call, Destination.connect is invoked only right after
\* the Source.connect invoked before it has resolved, and never once a
\* Source.connect has failed; Source.connect is invoked first.
C30_SourceThenDestination ==
    /\ \A i \in At(trace, "destination.connect") :
          /\ i > 2
          /\ trace[i - 1].ev = "source.connect.ok"
          /\ trace[i - 2].ev = "source.connect"
    /\ Has(trace, "source.connect.fail") => ~Has(trace, "destination.connect")
    /\ Has(trace, "source.connect") => trace[1].ev = "source.connect"

\* C30 witness: a connect() whose Source.connect failed is over, after its
\* cleanup.
C30_Witness ==
    /\ CallDone("connect")
    /\ result.status = "threw"
    /\ result.error = SourceConnectError
    /\ Has(trace, "source.close")

\* ------------------------------------------------- claims on the Paginator
\* the last row of the batch yielded last does not carry the cursor field
LastRowLacksCursor ==
    /\ Len(yielded) > 0
    /\ querySpec.cursorField \notin DOMAIN yielded[Len(yielded)]
Terminated == fetchPc \in {"done", "failed"}

\* C14: every batch fetch() yields is non-empty; a result that is empty or
\* has no rows ends the sequence instead of being yielded (it is the one
\* result that was not yielded, and the last).
C14_NoEmptyBatchYielded ==
    /\ yieldCount > 0 => Len(yielded) > 0
    /\ yieldCount <= replies
    /\ replies <= yieldCount + 1
    /\ replies = yieldCount + 1 => fetchPc = "done"

\* C14 witness: a sequence that yielded two batches was ended by a result
\* that was not yielded.
C14_Witness ==
    /\ fetchPc = "done"
    /\ yieldCount = 2
    /\ replies = 3

\* C15: with cursorField and cursorParamsIndex configured, the first query
\* carries the caller's params, every later query carries at
\* cursorParamsIndex the cursorField value of the last row of the batch
\* yielded just before it, and every other parameter is the caller's; the
\* results [{id:1},{id:2}], [{id:3}], [] with params [0] give the three
\* queries bound to 0, 2, 3, two yielded batches and the end of the sequence.
C15_CursorBoundIntoNextQuery ==
    /\ CursorFieldSet /\ IndexIsNumber =>
          LET i == querySpec.cursorParamsIndex + 1
              n == Len(queries)
          IN  /\ n >= 1 => queries[1] = querySpec.params
              /\ \A k \in 1..n :
                    /\ Len(queries[k]) = Len(querySpec.params)
                    /\ \A j \in 1..Len(querySpec.params) :
                          j # i => queries[k][j] = querySpec.params[j]
              /\ fetchPc = "query" /\ n >= 2 =>
                    /\ ~LastRowLacksCursor
                    /\ queries[n][i] = yielded[Len(yielded)].id
    /\ querySpec = ScenarioSpec /\ scenario = Len(ScenarioResults) =>
          /\ queries = <<<<InitialCursor>>, <<2>>, <<3>>>>
          /\ yieldCount = 2
          /\ replies = 3
          /\ fetchPc = "done"

\* C15 witness: the Query Spec of the tests has received the three results
\* of the tests.
C15_Witness ==
    /\ querySpec = ScenarioSpec
    /\ scenario = Len(ScenarioResults)
    /\ replies = 3

\* C16: without cursorField the query is executed once and at most one batch
\* is yielded, whatever the size of the result (and whether or not a
\* cursorParamsIndex is given).
C16_NoCursorFieldOneBatch ==
    ~CursorFieldSet =>
        /\ Len(queries) <= 1
        /\ yieldCount <= 1
        /\ replies <= 1

\* C16 witness: a fetch() without cursorField is over after yielding a full
\* page whose last row carries a cursor value.
C16_Witness ==
    /\ ~CursorFieldSet
    /\ IndexIsNumber
    /\ fetchPc = "done"
    /\ yieldCount = 1
    /\ Len(yielded) = MaxPageLen
    /\ "id" \in DOMAIN yielded[Len(yielded)]

\* C17: when the last record of the batch just yielded lacks cursorField, the
\* next step ends the sequence: no further query is executed.
C17_MissingCursorEndsSequence ==
    [][fetchPc = "yielded" /\ CursorFieldSet /\ LastRowLacksCursor =>
          /\ queries' = queries
          /\ fetchPc' \in {"done", "returned"}]_vars

\* C17 witness: a fetch() with cursorField and cursorParamsIndex returned
\* after its second batch, whose last row lacked the cursor field, with
\* queries to spare and no empty result.
C17_Witness ==
    /\ fetchPc = "done"
    /\ CursorFieldSet
    /\ IndexIsNumber
    /\ yieldCount = 2
    /\ replies = 2
    /\ LastRowLacksCursor
    /\ Len(queries) < QueryLimit

\* C18: a failed query makes fetch() throw the query's error to its consumer;
\* it is the last query (not executed again, none after it), and every
\* result received was requested by exactly one query.
C18_NoReadRetry ==
    /\ failures > 0 =>
          /\ failures = 1
          /\ fetchPc = "failed"
          /\ fetchError = QueryError
    /\ Len(queries) = replies + failures + (IF fetchPc = "query" THEN 1 ELSE 0)

\* C18 witness: the query for the second page failed.
C18_Witness ==
    /\ fetchPc = "failed"
    /\ failures = 1
    /\ replies = 1
    /\ yieldCount = 1
    /\ Len(queries) = 2

\* C19: against a finite table whose query returns only rows with the cursor
\* field above the bound, fetch() with cursorField and a cursorParamsIndex
\* holding the bound ends (it returns or throws) after at most one query per
\* row of the table and one more.
C19_FetchTerminates ==
    /\ [](Len(queries) <= Cardinality(table) + 1)
    /\ <>Terminated

\* C19 witness: fetch() returned after a query for each row of a full table
\* and the last, empty one.
C19_Witness ==
    /\ fetchPc = "done"
    /\ table = Keys
    /\ Len(queries) = MaxKey + 1
    /\ yieldCount = MaxKey

\* C29: the params of the configuration are never written: every fetch()
\* sequence began its first query with the params the configuration holds
\* now, whatever cursor values the sequences have bound since.
C29_ParamsCloned ==
    \A i \in DOMAIN began : began[i] = querySpec.params

\* a second fetch() sequence on the instance has bound a cursor value into
\* its params, which now differ from the params of the configuration
C29_Witness ==
    /\ Len(began) = MaxFetches
    /\ cursorValue # Undefined
    /\ params # querySpec.params

\* ------------------------------------------------ claims on Firestore
\* C32: the batches yielded are the non-empty snapshots received, in order,
\* as plain objects, and none is empty; every query after the first starts
\* after the last document of the snapshot before it, which held exactly
\* limit docs; a snapshot of fewer docs answered the last query issued, and
\* after an empty one fetch() is over.
C32_PagesUntilShort ==
    /\ Len(emitted) = Cardinality({k \in DOMAIN snapshots : snapshots[k] # <<>>})
    /\ \A k \in DOMAIN emitted :
          /\ emitted[k] = Plain(snapshots[k])
          /\ emitted[k] # <<>>
    /\ \A k \in DOMAIN gets :
          k > 1 => /\ Len(snapshots[k - 1]) = limit
                   /\ gets[k] = snapshots[k - 1][limit]
    /\ \A k \in DOMAIN snapshots :
          /\ Len(snapshots[k]) < limit => Len(gets) = k
          /\ snapshots[k] = <<>> => firestorePc = "done"

\* C32 witness: as in the driver's test, a full page was followed by a
\* shorter one, after which fetch() is over.
C32_Witness ==
    /\ firestorePc = "done"
    /\ Len(gets) = 2
    /\ Len(snapshots) = 2
    /\ Len(snapshots[1]) = limit
    /\ Len(snapshots[2]) > 0
    /\ Len(snapshots[2]) < limit

\* ------------------------------------------- claims on the Batched Writer

\* C20 as stated: in each of Redshift, Snowflake and Databricks, a flush unit
\* whose every attempt failed (insert() threw; no ROLLBACK was rejected) has
\* been attempted exactly 1 + maxRetries times, for every configured
\* maxRetries >= 0.
C20_AttemptsAreOnePlusMaxRetries ==
    /\ insertPc = "idle"
    /\ method = "insert"
    /\ attempts > 0
    /\ insertResult.status = "threw"
    /\ Given("maxRetries")
    /\ ~rollbackFailed
    => attempts = 1 + writerConfig.maxRetries

\* the same count in Redshift and Snowflake alone, where it holds
AttemptsOutsideDatabricks ==
    adapter # "databricks" => C20_AttemptsAreOnePlusMaxRetries

\* the retries a configuration asks for: maxRetries, 3 if it names none
ConfiguredRetries ==
    IF Given("maxRetries") THEN writerConfig.maxRetries ELSE DefaultMaxRetries

\* the attempts of the insert() that has ended which failed
FailedAttempts == IF insertResult.status = "returned" THEN attempts - 1 ELSE attempts

\* C21 as stated: with transactions enabled, an insert() whose flush unit
\* saw only row writes fail, on k <= maxRetries attempts, has returned, after
\* one ROLLBACK per failed attempt and one COMMIT (the return of insert() is
\* what makes the Pipeline count the batch).
C21_RetriedFlushSucceeds ==
    /\ insertPc = "idle"
    /\ method = "insert"
    /\ attempts > 0
    /\ TransactionEnabled
    /\ ~otherFailed
    /\ FailedAttempts <= ConfiguredRetries
    => /\ insertResult.status = "returned"
       /\ rollbacks = attempts - 1
       /\ commits = 1

\* the same in Redshift and Snowflake alone, where it holds
RetriedOutsideDatabricks ==
    adapter # "databricks" => C21_RetriedFlushSucceeds

\* C22: the rows the table durably held when an insert() was called are still
\* held at every point of that call and after it, whether it returns or
\* throws.
C22_EarlierRowsPersist ==
    method = "insert" => stored >= held

\* without the truncate option no insert() removes a row
EarlierRowsPersistWithoutTruncate ==
    ~Given("truncate") => C22_EarlierRowsPersist

\* close() of a Databricks or BigQuery driver has returned
CloseReturned ==
    /\ adapter \in Buffered
    /\ method = "close"
    /\ insertPc = "idle"
    /\ insertResult.status = "returned"

\* C23: when close() of a Databricks or BigQuery driver has returned, the
\* buffer is empty and the table durably holds at least the rows passed to
\* the insert() calls that returned.
C23_CloseFlushesBuffer ==
    CloseReturned => pendingRows = 0 /\ stored >= accepted

\* the part of C23 on the buffer alone
CloseEmptiesBuffer ==
    CloseReturned => pendingRows = 0

\* C24: when insert() of a Databricks or BigQuery driver has returned, the
\* buffer holds fewer than batchSize rows; and no write is in flight for
\* fewer than batchSize rows during insert().
C24_BufferBelowThreshold ==
    /\ adapter \in Buffered
    /\ method = "insert"
    => /\ insertPc = "idle" /\ insertResult.status = "returned"
          => pendingRows < writerConfig.batchSize
       /\ insertPc = "INSERT" => unit >= writerConfig.batchSize

\* the same for BigQuery alone
BigQueryBufferBelowThreshold ==
    adapter = "bigquery" => C24_BufferBelowThreshold

\* the rows of the writes in flight that were issued together: the rows of
\* the sub-batch (one INSERT per row), or of the one write of the unit
RowsInWrite ==
    IF adapter \in Buffered THEN unit ELSE Len(statements)

\* C25: no write in flight holds more than batchSize rows.
C25_WriteAtMostBatchSize ==
    insertPc = "INSERT" => RowsInWrite <= writerConfig.batchSize

\* the same for Redshift and Snowflake, which slice the rows
SlicedWriteAtMostBatchSize ==
    adapter \notin Buffered => C25_WriteAtMostBatchSize

\* C26: the write statements of a Snowflake flush unit that are in flight at
\* the same time never number more than maxParallelStatements (1 if not
\* configured).
C26_InFlightWithinLimit ==
    adapter = "snowflake" => Cardinality(Pending(statements)) <= MaxParallelOf

\* C27: an insert() called on a Redshift or Snowflake driver that is not
\* connected to the backend awaits no statement and throws 'Not connected'.
C27_InsertFailsFastUnconnected ==
    /\ adapter \notin Buffered
    /\ method = "insert"
    /\ ~online
    => /\ insertPc = "idle"
       /\ insertResult = [status |-> "threw", error |-> [name |-> "NotConnected"]]

\* the same for Redshift alone
RedshiftInsertFailsFast ==
    adapter = "redshift" => C27_InsertFailsFastUnconnected

\* C28: on a Databricks or BigQuery driver that was never closed, at most one
\* backend connection has been established, and exactly one once a
\* connect() or an insert() has returned.
C28_OneConnectionLazily ==
    /\ adapter \in Buffered
    /\ closes = 0
    => /\ established <= 1
       /\ /\ insertPc = "idle"
          /\ method \in {"connect", "insert"}
          /\ insertResult.status = "returned"
          => established = 1

\* the same for BigQuery alone
BigQueryOneConnectionLazily ==
    adapter = "bigquery" => C28_OneConnectionLazily

\* C31: in Redshift, Snowflake and Databricks with createTableOptions, never
\* more CREATE TABLE IF NOT EXISTS statements have been issued than
\* connections established, and as many while a row write is in flight on
\* a connected connection.
C31_OneCreatePerConnection ==
    /\ adapter # "bigquery"
    /\ Given("createTableOptions")
    => /\ creates <= established
       /\ insertPc = "INSERT" /\ online => creates = established

\* the same for Redshift and Snowflake
CreateBeforeWriteOutsideDatabricks ==
    adapter # "databricks" => C31_OneCreatePerConnection

\* a Pipeline.run() on this Destination has resolved: connect() and every
\* insert() returned, and close() is over
RunResolved ==
    /\ piped
    /\ method = "close"
    /\ insertPc = "idle"

\* C33: when a Pipeline.run() on this Destination has resolved, the table
\* durably holds at least the rows of the batches whose insert() returned,
\* which are the rows counted in totalRows.
C33_CountedRowsWritten ==
    RunResolved => stored >= accepted

\* the same for Redshift and Snowflake
CountedRowsWrittenUnbuffered ==
    adapter \notin Buffered => C33_CountedRowsWritten


\* insert() returns, with transactions enabled
InsertReturnsInTransaction ==
    /\ insertPc # "idle"
    /\ insertPc' = "idle"
    /\ method = "insert"
    /\ insertResult'.status = "returned"
    /\ TransactionEnabled

\* the table holds each row of the batch once more than when insert() was
\* called, and nothing else: stored = held + passed in Redshift and
\* Snowflake; in Databricks the rows of the flushed unit, which include the
\* batch, or no more rows when the batch was only buffered
BatchCommittedOnce ==
    IF adapter \in Buffered
    THEN IF attempts = 0 THEN stored = held ELSE stored >= held + passed
    ELSE stored = held + passed

\* C34: with transactions enabled, at the moment insert() returns the
\* committed content added by the call is each row of the batch exactly
\* once, however many attempts failed before.
C34_BatchCommittedOnce ==
    [][InsertReturnsInTransaction => BatchCommittedOnce']_vars

\* the same for the first insert() on the connection
FirstBatchCommittedOnce ==
    [][InsertReturnsInTransaction /\ inserts = 1 => BatchCommittedOnce']_vars

\* the same for a first insert() whose first attempt succeeds
BatchCommittedOnceFirstAttempt ==
    [][InsertReturnsInTransaction /\ inserts = 1 /\ attempts = 1 => BatchCommittedOnce']_vars

\* insert() has thrown, with transactions enabled, after a ROLLBACK of one
\* of its attempts was rejected
ThrewAfterRollbackFailure ==
    /\ method = "insert"
    /\ insertPc = "idle"
    /\ insertResult.status = "threw"
    /\ TransactionEnabled
    /\ rollbackFailed

\* the errors that report a rejected ROLLBACK
RollbackErrors ==
    {StatementError("ROLLBACK"), [name |-> "InsertFailed", cause |-> StatementError("ROLLBACK")]}

\* C35: with transactions enabled, an insert() that throws after a ROLLBACK
\* was rejected has made every attempt, the first and one per retry, and
\* throws the error of the failed write, not that of the ROLLBACK.
C35_RetriedDespiteRollbackFailure ==
    ThrewAfterRollbackFailure =>
        /\ attempts = 1 + MaxRetriesOf
        /\ insertResult.error \notin RollbackErrors

\* Databricks, whose loop makes maxRetries attempts: the same with that count
DatabricksRetriedDespiteRollbackFailure ==
    adapter = "databricks" /\ ThrewAfterRollbackFailure =>
        /\ attempts = MaxRetriesOf
        /\ insertResult.error \notin RollbackErrors

\* the ROLLBACK of a failed attempt, or the BEGIN of the attempt after it, is
\* awaited in Redshift or Snowflake
AfterFailedAttempt ==
    /\ adapter \notin Buffered
    /\ method = "insert"
    /\ \/ insertPc = "ROLLBACK"
       \/ insertPc = "BEGIN" /\ attempts > 1

\* C36: in Redshift and Snowflake, while the ROLLBACK of a failed attempt or
\* the BEGIN of the next attempt is awaited, no write statement is in flight.
C36_NoWriteInFlightAtRollback ==
    AfterFailedAttempt => orphans = 0

\* the same when every sub-batch holds one row
NoWriteInFlightAtRollbackSingle ==
    writerConfig.batchSize = 1 => C36_NoWriteInFlightAtRollback

\* the adapter holds a usable connection: Databricks' session, BigQuery's
\* client and table
Usable == client /\ conn /\ online

\* C37: in BigQuery and Databricks, a connect() that has thrown leaves the
\* adapter without client, so that the next call connects afresh, and an
\* insert() that has returned leaves it with a usable connection.
C37_FailedConnectLeavesUnconnected ==
    adapter \in Buffered /\ insertPc = "idle" =>
        /\ method = "connect" /\ insertResult.status = "threw" => ~client
        /\ method = "insert" /\ insertResult.status = "returned" => Usable

\* the same for an insert() that is the first call on the adapter
FirstInsertConnects ==
    setups = 0 /\ inserts = 1 => C37_FailedConnectLeavesUnconnected

\* the statements of the attempts of a flush
FlushCalls == {"BEGIN", "INSERT", "COMMIT", "ROLLBACK"}

\* a flush of a buffered adapter has failed for good: the insert() or
\* close() that made it has thrown after at least one attempt
FlushFailed ==
    /\ adapter \in Buffered
    /\ insertPc = "idle"
    /\ method \in {"insert", "close"}
    /\ insertResult.status = "threw"
    /\ attempts > 0

AwaitsInTransaction(stmt) ==
    /\ adapter \notin Buffered
    /\ method = "insert"
    /\ TransactionEnabled
    /\ insertPc = stmt

\* the errors of the statements an attempt issues up to and including BEGIN
BeforeBegun == {StatementError("TRUNCATE"), StatementError("BEGIN")}

\* C39: in Redshift and Snowflake with transactions enabled, COMMIT is
\* issued only in a transaction the attempt's BEGIN opened, and ROLLBACK only
\* for a failure after the attempt's BEGIN resolved, not for a failure of
\* TRUNCATE or of BEGIN itself.
C39_RollbackOnlyAfterBegin ==
    /\ AwaitsInTransaction("COMMIT") => txOpen
    /\ AwaitsInTransaction("ROLLBACK") => caught \notin BeforeBegun

\* the part on COMMIT
CommitOnlyAfterBegin ==
    AwaitsInTransaction("COMMIT") => txOpen

\* the statements of an attempt of Databricks' flushBatch() that follow its
\* START TRANSACTION: the write, and the COMMIT or ROLLBACK that ends it
InsideTransaction == {"INSERT", "COMMIT", "ROLLBACK"}

====
